---- MODULE Spec2Model ----
(***************************************************************************)
(* A model of the season browser of umdwbb-data (src/script.js): the       *)
(* module-level state of the page, the season aggregation of player box    *)
(* score rows, the timeline-driven team totals and the clock formatter.    *)
(*                                                                         *)
(* Conventions.                                                            *)
(*  - A CSV cell that the code reads with parseInt or split is a sequence  *)
(*    of one-character strings, so that parsing is modelled character by   *)
(*    character.  Names, teams and ids, which the code only compares and   *)
(*    concatenates, are strings.                                           *)
(*  - A JavaScript number that can be NaN is a record [nan, v]; a number   *)
(*    the code always guards with "|| 0" is an integer.                    *)
(*  - A value produced by toFixed is the string JavaScript would print.    *)
(*    The numbers the code prints are IEEE 754 doubles: toFixed prints the *)
(*    exact value of the double the expression produced, rounded to the    *)
(*    given decimals, halves away from zero.                               *)
(***************************************************************************)
EXTENDS Integers, Sequences, FiniteSets, Bags, TLC

VARIABLES
    currentSeason,        \* let currentSeason (script.js:2)
    files,                \* the CSV files the server holds, per season
    pending,              \* the selectSeason calls that await their loads,
                          \* a bag of seasons
    allGames,             \* let allGames (script.js:8)
    allSeasonStats,       \* let allSeasonStats (script.js:21)
    sortedGames,          \* let sortedGames (script.js:19)
    selectedGameIndex,    \* let selectedGameIndex (script.js:20)
    seasonPlayerStats,    \* let seasonPlayerStats (script.js:11)
    filteredSeasonStats,  \* let filteredSeasonStats (script.js:12)
    seasonTeamTotals,     \* let seasonTeamTotals (script.js:13)
    seasonFilter,         \* the values of the season filter controls
    clockArg,             \* the argument of formatTime
    clockText,            \* the text formatTime returned
    lastOp,               \* the operation that ran last
    allPlays,             \* let allPlays (script.js:4)
    filteredPlays,        \* let filteredPlays (script.js:9)
    playsFilter,          \* the values of the plays filter controls
    currentGameId,        \* let currentGameId (script.js:3)
    pendingGames,         \* the selectGame calls that await their loads,
                          \* a bag of (game, season) pairs
    gameFiles,            \* the per-game CSV files of the season with files
    allStats,             \* let allStats (script.js:5)
    filteredStats,        \* let filteredStats (script.js:10)
    statsFilter,          \* the values of the stats filter controls
    allTeamTotals,        \* let allTeamTotals (script.js:6)
    allPeriodScores,      \* let allPeriodScores (script.js:7)
    playByPlay,           \* the play-by-play stream the analysis reads
    playsRead,            \* how many plays of the stream were read
    substitutionEvents,   \* the SubstitutionEvents extracted so far
    diagnostics,          \* the unmatched narrative entries dropped so far
    massSubstitutions,    \* the mass-substitution records
    timingHistogram,      \* the (period, bucket) cells of the histogram
    assistEdges,          \* the AssistEdges accumulated so far
    assisterTotals,       \* the per-assister rollup
    scorerTotals          \* the per-scorer rollup

\* The globals of the game view.
gameLoadVars == <<currentGameId, pendingGames, gameFiles, allStats,
                  filteredStats, statsFilter, allTeamTotals, allPeriodScores>>

gameVars == <<allPlays, filteredPlays, playsFilter, gameLoadVars>>

\* The state of the substitution and assist analysis.
analysisVars == <<playByPlay, playsRead, substitutionEvents, diagnostics,
                  massSubstitutions, timingHistogram, assistEdges,
                  assisterTotals, scorerTotals>>

\* The globals of the season view and the clock.
seasonVars == <<currentSeason, files, pending, allGames, allSeasonStats,
                sortedGames, selectedGameIndex, seasonPlayerStats,
                filteredSeasonStats, seasonTeamTotals, seasonFilter,
                clockArg, clockText>>

vars == <<seasonVars, lastOp, gameVars, analysisVars>>

(***************************************************************************)
(* Bounds of the model.                                                    *)
(***************************************************************************)
\* Rows passed to aggregateSeasonStats.
MaxRows == 3

\* Games and player rows passed to computeTeamSeasonTotals.
MaxTeamGames == 2

MaxTeamRows == 2

\* Games and player rows in a season's files.
MaxGames == 2

MaxSeasonRows == 2

\* The most loads of selectSeason, and of selectGame, in flight at once.
MaxLoads == 2

\* The largest number of seconds passed to formatTime.
MaxClockSeconds == 125

(***************************************************************************)
(* JavaScript numbers, parseInt, split and toFixed.                        *)
(***************************************************************************)
NaN == [nan |-> TRUE, v |-> 0]

Num(n) == [nan |-> FALSE, v |-> n]

\* a + b on numbers: NaN is absorbing.
JsAdd(a, b) == IF a.nan \/ b.nan THEN NaN ELSE Num(a.v + b.v)

\* a > k for an integer k: every comparison with NaN is false.
JsGt(a, k) == ~a.nan /\ a.v > k

DigitChars == <<"0", "1", "2", "3", "4", "5", "6", "7", "8", "9">>

IsDigit(c) == \E i \in 1..10 : DigitChars[i] = c

DigitVal(c) == (CHOOSE i \in 1..10 : DigitChars[i] = c) - 1

\* The white space parseInt skips (StrWhiteSpaceChar): space, tab, line
\* feed, carriage return, form feed, vertical tab, U+00A0, U+FEFF and
\* U+1680.  The other space separators (U+2000 to U+200A, U+2028, U+2029,
\* U+202F, U+205F, U+3000) do not occur in a string of this module.
WhiteSpace ==
    { " ", "\t", "\n", "\r", "\f",
      "", " ", "﻿", " " }

RECURSIVE SkipSpaces(_)
SkipSpaces(s) ==
    IF s # <<>> /\ Head(s) \in WhiteSpace THEN SkipSpaces(Tail(s)) ELSE s

\* The value of the longest prefix of digits of s, read in base 10,
\* continuing from acc.
RECURSIVE DigitsValue(_, _)
DigitsValue(s, acc) ==
    IF s # <<>> /\ IsDigit(Head(s))
    THEN DigitsValue(Tail(s), 10 * acc + DigitVal(Head(s)))
    ELSE acc

\* The letters that are digits of base 16, in either case: a is 10.
HexLetters ==
    <<{"a", "A"}, {"b", "B"}, {"c", "C"}, {"d", "D"}, {"e", "E"}, {"f", "F"}>>

IsHexDigit(c) == IsDigit(c) \/ \E i \in 1..6 : c \in HexLetters[i]

HexDigitVal(c) ==
    IF IsDigit(c) THEN DigitVal(c)
    ELSE 9 + (CHOOSE i \in 1..6 : c \in HexLetters[i])

\* The value of the longest prefix of hexadecimal digits of s, continuing
\* from acc.
RECURSIVE HexDigitsValue(_, _)
HexDigitsValue(s, acc) ==
    IF s # <<>> /\ IsHexDigit(Head(s))
    THEN HexDigitsValue(Tail(s), 16 * acc + HexDigitVal(Head(s)))
    ELSE acc

\* parseInt(cell), no radix given: leading white space is skipped, one sign
\* is accepted, a 0x or 0X that follows selects base 16 and base 10 is
\* used otherwise; the digits of the base are read up to the first other
\* character; NaN when there is no digit.
parseInt(cell) ==
    LET magnitude(u) ==
            IF Len(u) >= 2 /\ u[1] = "0" /\ u[2] \in {"x", "X"}
            THEN IF Len(u) >= 3 /\ IsHexDigit(u[3])
                 THEN Num(HexDigitsValue(SubSeq(u, 3, Len(u)), 0))
                 ELSE NaN
            ELSE IF u # <<>> /\ IsDigit(Head(u)) THEN Num(DigitsValue(u, 0))
            ELSE NaN
        withSign(negative, n) ==
            IF negative /\ ~n.nan THEN Num(0 - n.v) ELSE n
        signed(t) ==
            withSign(t # <<>> /\ Head(t) = "-",
                     magnitude(IF t # <<>> /\ Head(t) \in {"-", "+"}
                               THEN Tail(t) ELSE t))
    IN  signed(SkipSpaces(cell))

\* x || 0 : NaN and 0 are falsy.
OrZero(x) == IF x.nan THEN 0 ELSE x.v

\* parseInt(cell) || 0
parseIntOrZero(cell) == OrZero(parseInt(cell))

\* cell.split(sep): the pieces of cell between the occurrences of sep.
RECURSIVE SplitFrom(_, _, _)
SplitFrom(s, sep, cur) ==
    IF s = <<>> THEN <<cur>>
    ELSE IF Head(s) = sep THEN <<cur>> \o SplitFrom(Tail(s), sep, <<>>)
    ELSE SplitFrom(Tail(s), sep, Append(cur, Head(s)))

split(cell, sep) == SplitFrom(cell, sep, <<>>)

\* const [made, attempted] = cell.split('-').map(n => parseInt(n) || 0):
\* made is the first piece, attempted the second; a missing second piece
\* leaves attempted undefined, and adding undefined to a number gives NaN.
parseMadeAttempted(cell) ==
    LET parts == split(cell, "-")
    IN  [made |-> parseIntOrZero(parts[1]),
         attempted |-> IF Len(parts) >= 2 THEN Num(parseIntOrZero(parts[2]))
                       ELSE NaN]

RECURSIVE IntToStr(_)
IntToStr(n) ==
    IF n < 10 THEN DigitChars[n + 1]
    ELSE IntToStr(n \div 10) \o DigitChars[(n % 10) + 1]

RECURSIVE Pow10(_)
Pow10(f) == IF f = 0 THEN 1 ELSE 10 * Pow10(f - 1)

\* s.padStart(width, '0')
RECURSIVE padStart(_, _)
padStart(s, width) == IF Len(s) >= width THEN s ELSE padStart("0" \o s, width)

(***************************************************************************)
(* JavaScript numbers are IEEE 754 doubles.  The quotients, products and   *)
(* sums the code prints with toFixed are computed here as the engine       *)
(* computes them: every operation gives the double nearest to its exact    *)
(* result (ties to the even mantissa), and toFixed prints the exact value  *)
(* of the double it is given.  A double is [neg, m, e], standing for       *)
(* (-1)^neg * m * 2^e with m below 2^53; m is a natural number of any      *)
(* size, its limbs in base LimbBase least significant first and the top    *)
(* limb other than 0.  The values of the page are far from the subnormal   *)
(* and the infinite range.                                                 *)
(***************************************************************************)
LimbBase == 32768

LimbBits == 15

MantissaBits == 53

\* e, once v is computed.  TLC computes an argument where it is first
\* used; arguments left pending inside one another nest its evaluation
\* deeply, and v is computed here to keep it flat.
Given(v, e) == <<v, e>>[2]

\* Limb i of a, 0 outside a.
Limb(a, i) == IF 1 <= i /\ i <= Len(a) THEN a[i] ELSE 0

\* 2^k for k in 0..LimbBits
SmallPow2(k) ==
    <<1, 2, 4, 8, 16, 32, 64, 128, 256, 512, 1024, 2048, 4096, 8192, 16384,
      32768>>[k + 1]

\* The number of bits of n < LimbBase.
SmallBitLen(n) == Cardinality({k \in 0..(LimbBits - 1) : SmallPow2(k) <= n})

\* a without its zero limbs at the top.
BigTrim(a) ==
    LET upTo(limbs) ==
            SubSeq(limbs, 1,
                   Cardinality({i \in 1..Len(limbs) :
                                  \E j \in i..Len(limbs) : limbs[j] # 0}))
    IN  upTo(<<>> \o a)

\* The limbs of n, 0 <= n < 2^31.
BigOfInt(n) ==
    BigTrim(<<n % LimbBase, (n \div LimbBase) % LimbBase,
              n \div (LimbBase * LimbBase)>>)

\* The integer of a < 2^31.
BigToInt(a) ==
    Limb(a, 1) + LimbBase * Limb(a, 2) + LimbBase * LimbBase * Limb(a, 3)

\* The number of bits of a.
BigBitLen(a) ==
    IF a = <<>> THEN 0
    ELSE LimbBits * (Len(a) - 1) + SmallBitLen(a[Len(a)])

\* 1, 0 or -1 as a is above, equal to or below b: the longer one is above,
\* and of two of a length the one with the larger limb where they first
\* differ from the top.
BigCmp(a, b) ==
    LET above(i) == a[i] # b[i] /\ \A j \in (i + 1)..Len(a) : a[j] = b[j]
    IN  IF Len(a) # Len(b) THEN (IF Len(a) > Len(b) THEN 1 ELSE -1)
        ELSE IF a = b THEN 0
        ELSE IF \E i \in 1..Len(a) : above(i) /\ a[i] > b[i] THEN 1
        ELSE -1

\* The natural number whose limb i is sums[i], each below 2 * LimbBase,
\* once the carries are passed on: limb i gets a carry when a limb below
\* overflows and every limb between is full.
Carried(sums) ==
    LET carry(s, i) ==
            \E j \in 1..(i - 1) :
                /\ s[j] >= LimbBase
                /\ \A k \in (j + 1)..(i - 1) : s[k] = LimbBase - 1
        passed(s) ==
            BigTrim([i \in 1..Len(s) |->
                       (s[i] + IF carry(s, i) THEN 1 ELSE 0) % LimbBase])
    IN  passed(sums \o <<0>>)

\* The operations on naturals that the others use at several places are
\* the cases of Arith, each under its name, with its arguments in a tuple.
RECURSIVE Arith(_, _)

\* a + b
BigAdd(a, b) == Arith("BigAdd", <<a, b>>)

\* a - b for a >= b
BigSub(a, b) == Arith("BigSub", <<a, b>>)

\* a * k for 0 <= k <= LimbBase
BigMulSmall(a, k) == Arith("BigMulSmall", <<a, k>>)

\* a * 2^k
BigShl(a, k) == Arith("BigShl", <<a, k>>)

\* a \div 2^k
BigShr(a, k) == Arith("BigShr", <<a, k>>)

\* Long division by b, whose top limb is LimbBase \div 2 or more: st is the
\* quotient and the remainder of the limbs of a above limb i.
BigDivModAt(a, b, i, st) == Arith("BigDivModAt", <<a, b, i, st>>)

\* The double nearest to m * 2^e, or to a value just above it when sticky.
RoundDouble(neg, m, e, sticky) == Arith("RoundDouble", <<neg, m, e, sticky>>)

\* t.toFixed(f) for an expression t whose exact value is n / d, d > 0.
toFixedOf(n, d, f, t) == Arith("toFixedOf", <<n, d, f, t>>)

\* a * b for a and b of at most four limbs.  Column n of the long
\* multiplication holds the low parts of the products of the limbs i of a
\* and n + 1 - i of b, and the high parts of the products one column
\* below; what a column holds above a limb moves one column up.
BigMul(a, b) ==
    LET part(i, j) ==
            ((Limb(a, i) * Limb(b, j)) % LimbBase)
            + ((Limb(a, i) * Limb(b, j - 1)) \div LimbBase)
        column(n) ==
            part(1, n) + part(2, n - 1) + part(3, n - 2) + part(4, n - 3)
        moved(columns) ==
            Carried([n \in 1..Len(columns) |->
                       (columns[n] % LimbBase)
                       + (IF n = 1 THEN 0 ELSE columns[n - 1] \div LimbBase)])
    IN  moved([n \in 1..(Len(a) + Len(b) + 1) |-> column(n)] \o <<>>)

\* a % 2^k
BigLow(a, k) ==
    BigTrim([i \in 1..(k \div LimbBits + 1) |->
               IF i <= k \div LimbBits THEN Limb(a, i)
               ELSE Limb(a, i) % SmallPow2(k % LimbBits)])

\* The quotient and the remainder of a by b > 0, the remainder times the
\* power of 2 that brings the top limb of b to LimbBase \div 2 or more.
\* The limbs of a above the first from shorter than b are below b, and the
\* division starts with them as the remainder.
BigDivMod(a, b) ==
    LET trimmed(st) == [q |-> BigTrim(st.q), r |-> st.r]
        from(sa, sb, i) ==
            trimmed(BigDivModAt(sa, sb, i,
                                [q |-> <<>>, r |-> SubSeq(sa, i + 1, Len(sa))]))
        scaled(sa, sb) ==
            from(sa, sb, IF Len(sa) < Len(sb) THEN 0 ELSE Len(sa) - Len(sb) + 1)
        at(bits) == scaled(BigShl(a, bits), BigShl(b, bits))
    IN  at(LimbBits - SmallBitLen(b[Len(b)]))

\* The double of an integer of magnitude below 2^31.
DblOfInt(n) ==
    [neg |-> n < 0, m |-> BigOfInt(IF n < 0 THEN 0 - n ELSE n), e |-> 0]

\* x * y
DblMul(x, y) ==
    IF x.m = <<>> \/ y.m = <<>>
    THEN [neg |-> x.neg # y.neg, m |-> <<>>, e |-> 0]
    ELSE RoundDouble(x.neg # y.neg, BigMul(x.m, y.m), x.e + y.e, FALSE)

\* x / y for y other than 0: the dividend is shifted left so that the
\* quotient has more than 53 bits, and a remainder makes it sticky.
DblDiv(x, y) ==
    LET rounded(qr, e) ==
            Given(qr, RoundDouble(x.neg # y.neg, qr.q, e, qr.r # <<>>))
        shifted(s) == rounded(BigDivMod(BigShl(x.m, s), y.m), x.e - s - y.e)
        atLeast(need) == shifted(IF need > 0 THEN need ELSE 0)
    IN  IF x.m = <<>> \/ y.m = <<>>
        THEN [neg |-> x.neg # y.neg, m |-> <<>>, e |-> 0]
        ELSE atLeast(MantissaBits + 2 + BigBitLen(y.m) - BigBitLen(x.m))

\* x + y: the mantissas are aligned at the smaller exponent and added or
\* subtracted as the signs say.
DblAdd(x, y) ==
    LET signedSum(a, b, c) ==
            IF x.neg = y.neg THEN [neg |-> x.neg, m |-> BigAdd(a, b)]
            ELSE IF c = 0 THEN [neg |-> FALSE, m |-> <<>>]
            ELSE IF c > 0 THEN [neg |-> x.neg, m |-> BigSub(a, b)]
            ELSE [neg |-> y.neg, m |-> BigSub(b, a)]
        rounded(sum, e) ==
            IF sum.m = <<>> THEN [neg |-> FALSE, m |-> <<>>, e |-> 0]
            ELSE RoundDouble(sum.neg, sum.m, e, FALSE)
        aligned(a, b, e) == rounded(signedSum(a, b, BigCmp(a, b)), e)
        at(e) == aligned(BigShl(x.m, x.e - e), BigShl(y.m, y.e - e), e)
    IN  IF x.m = <<>>
        THEN (IF y.m = <<>> THEN [y EXCEPT !.neg = x.neg /\ y.neg] ELSE y)
        ELSE IF y.m = <<>> THEN x
        ELSE at(IF x.e < y.e THEN x.e ELSE y.e)

\* x - y
DblSub(x, y) == DblAdd(x, [y EXCEPT !.neg = ~y.neg])

\* The expressions of the source text whose value is printed: an integer
\* n, and a + b, a - b, a * b, a / b for two expressions a and b.
Whole(n) == <<"n", n>>

Plus(a, b) == <<"+", a, b>>

Minus(a, b) == <<"-", a, b>>

Times(a, b) == <<"*", a, b>>

Over(a, b) == <<"/", a, b>>

\* The literals 0.t and 0.0h of the source text, whose value is the double
\* nearest to t / 10 and to h / 100.
Tenths(t) == Over(Whole(t), Whole(10))

Hundredths(h) == Over(Whole(h), Whole(100))

\* The operation op on the doubles x and y.
Operated(op, x, y) ==
    CASE op = "+" -> DblAdd(x, y)
      [] op = "-" -> DblSub(x, y)
      [] op = "*" -> DblMul(x, y)
      [] op = "/" -> DblDiv(x, y)

\* The double an expression evaluates to: the double of its integer, or
\* the operation on the doubles of its two operands.
RECURSIVE Number(_)
Number(t) ==
    IF t[1] = "n" THEN DblOfInt(t[2])
    ELSE LET xy == <<Number(t[2]), Number(t[3])>>
         IN  Given(xy, Operated(t[1], xy[1], xy[2]))

\* The digits toFixed(f) prints for the magnitude scaled / 10^f.
fixedDigits(scaled, f) ==
    IF f = 0 THEN IntToStr(scaled)
    ELSE IntToStr(scaled \div Pow10(f)) \o "."
         \o padStart(IntToStr(scaled % Pow10(f)), f)

\* x.toFixed(f) for a double x: n is the integer for which n / 10^f - x is
\* as close to zero as possible, the larger one of two; the sign is
\* printed when x < 0, and neither zero is.
toFixedDouble(x, f) ==
    LET signed(n) == (IF x.neg THEN "-" ELSE "") \o fixedDigits(BigToInt(n), f)
    IN  IF x.m = <<>> THEN fixedDigits(0, f)
        ELSE signed(IF x.e >= 0 THEN BigShl(BigMulSmall(x.m, Pow10(f)), x.e)
                    ELSE BigShr(BigAdd(BigMulSmall(x.m, 2 * Pow10(f)),
                                       BigShl(<<1>>, 0 - x.e)),
                                1 - x.e))

\* The exact quotient n / d, d > 0, lies half way between two numbers of f
\* decimals, or is zero.
IsHalfway(n, d, f) == n = 0 \/ (2 * n * Pow10(f)) % (2 * d) = d

\* The print of the exact quotient n / d, d > 0, which is not half way:
\* the sign of the value, the magnitude rounded to f decimals.
toFixedExact(n, d, f) ==
    LET a == IF n < 0 THEN 0 - n ELSE n
    IN  (IF n < 0 THEN "-" ELSE "")
        \o fixedDigits((2 * a * Pow10(f) + d) \div (2 * d), f)

Arith(op, args) ==
    CASE op = "BigAdd" ->
           LET a == args[1]
               b == args[2]
               longer == IF Len(a) > Len(b) THEN Len(a) ELSE Len(b)
           IN  IF b = <<>> THEN a
               ELSE Carried([i \in 1..longer |-> Limb(a, i) + Limb(b, i)])
      \* Limb i lends when a limb below falls short and every limb between
      \* is level.
      [] op = "BigSub" ->
           LET a == args[1]
               b == args[2]
               diff(i) == Limb(a, i) - Limb(b, i)
               borrow(i) == \E j \in 1..(i - 1) :
                                /\ diff(j) < 0
                                /\ \A k \in (j + 1)..(i - 1) : diff(k) = 0
           IN  IF b = <<>> THEN a
               ELSE BigTrim([i \in 1..Len(a) |->
                               (diff(i) - (IF borrow(i) THEN 1 ELSE 0)
                                + LimbBase) % LimbBase])
      \* The low part of the product of limb i, and the high part of the
      \* product of the limb below.
      [] op = "BigMulSmall" ->
           LET a == args[1]
               k == args[2]
           IN  IF k = 0 THEN <<>>
               ELSE Carried([i \in 1..(Len(a) + 1) |->
                               ((Limb(a, i) * k) % LimbBase)
                               + ((Limb(a, i - 1) * k) \div LimbBase)])
      [] op = "BigShl" ->
           LET a == args[1]
               limbs == args[2] \div LimbBits
               factor == SmallPow2(args[2] % LimbBits)
           IN  IF a = <<>> THEN <<>>
               ELSE BigTrim([i \in 1..(Len(a) + limbs + 1) |->
                               ((Limb(a, i - limbs) * factor) % LimbBase)
                               + ((Limb(a, i - limbs - 1) * factor)
                                  \div LimbBase)])
      [] op = "BigShr" ->
           LET a == args[1]
               limbs == args[2] \div LimbBits
               factor == SmallPow2(args[2] % LimbBits)
           IN  IF limbs >= Len(a) THEN <<>>
               ELSE BigTrim([i \in 1..(Len(a) - limbs) |->
                               (Limb(a, i + limbs) \div factor)
                               + (Limb(a, i + limbs + 1) % factor)
                                 * (LimbBase \div factor)])
      \* Limb i of a is brought down to the remainder.  The digit is
      \* estimated from the two top limbs of what is divided and the top
      \* limb of b; the estimate is at most 2 too large, and the digit is
      \* the estimate less 1 for each of the estimate and the one below it
      \* that is too large.
      [] op = "BigDivModAt" ->
           LET a == args[1]
               b == args[2]
               i == args[3]
               st == args[4]
               estimate(cur) ==
                   IF Len(cur) < Len(b) THEN 0
                   ELSE IF Limb(cur, Len(b) + 1) >= b[Len(b)] THEN LimbBase - 1
                   ELSE (Limb(cur, Len(b) + 1) * LimbBase + cur[Len(b)])
                        \div b[Len(b)]
               fitting(cur, digit) ==
                   digit - Cardinality({k \in 0..1 :
                                          /\ digit >= k
                                          /\ BigCmp(BigMulSmall(b, digit - k),
                                                    cur) > 0})
               taking(cur, digit) ==
                   Given(digit, [q |-> <<digit>> \o st.q,
                                 r |-> BigSub(cur, BigMulSmall(b, digit))])
               dividing(cur) == taking(cur, fitting(cur, estimate(cur)))
           IN  IF i = 0 THEN st
               ELSE BigDivModAt(a, b, i - 1,
                                dividing(BigTrim(<<a[i]>> \o st.r)))
      \* With k bits to drop, q is m without them; q goes up when the
      \* dropped bits are above half of 2^k, and on a tie when q is odd (or
      \* sticky); a carry to 2^53 is brought back to 53 bits.
      [] op = "RoundDouble" ->
           LET neg == args[1]
               m == args[2]
               e == args[3]
               sticky == args[4]
               normalised(q, ex) ==
                   IF BigBitLen(q) > MantissaBits
                   THEN [neg |-> neg, m |-> BigShr(q, 1), e |-> ex + 1]
                   ELSE [neg |-> neg, m |-> q, e |-> ex]
               roundedUp(q, c) ==
                   IF c > 0 \/ (c = 0 /\ (sticky \/ q[1] % 2 = 1))
                   THEN BigAdd(q, <<1>>) ELSE q
               dropping(k) ==
                   normalised(roundedUp(BigShr(m, k),
                                        BigCmp(BigLow(m, k),
                                               BigShl(<<1>>, k - 1))),
                              e + k)
           IN  IF BigBitLen(m) <= MantissaBits
               THEN [neg |-> neg, m |-> m, e |-> e]
               ELSE dropping(BigBitLen(m) - MantissaBits)
      \* The exact value is half way or at least 1 / (2 * d * 10^f) off it,
      \* and the rounding errors of the few double operations of an
      \* expression are smaller by many orders of magnitude: the double
      \* prints as the exact value does unless that is half way or zero,
      \* and then the double itself is printed.
      [] op = "toFixedOf" ->
           IF IsHalfway(args[1], args[2], args[3])
           THEN toFixedDouble(Number(args[4]), args[3])
           ELSE toFixedExact(args[1], args[2], args[3])

\* (n / d).toFixed(f) for integers n and d > 0
toFixed(n, d, f) == toFixedOf(n, d, f, Over(Whole(n), Whole(d)))

\* NaN.toFixed(f)
NaNText == "NaN"

\* n.toString() for an integer n
numToString(n) == IF n < 0 THEN "-" \o IntToStr(0 - n) ELSE IntToStr(n)

\* a % b in JavaScript: the remainder has the sign of a.
jsRemainder(a, b) == IF a < 0 THEN 0 - ((0 - a) % b) ELSE a % b

\* formatTime(seconds) (script.js:30-35); Math.floor(secs / 60) is \div.
formatTime(seconds) ==
    LET secs == parseIntOrZero(seconds)
        minutes == secs \div 60
        remainingSeconds == jsRemainder(secs, 60)
    IN  numToString(minutes) \o ":" \o padStart(numToString(remainingSeconds), 2)

(***************************************************************************)
(* Player-game rows (player_stats.csv).                                    *)
(***************************************************************************)
\* Box-score lines: a complete line (10 points, 4-8 FG, 1-2 3PT, 2-2 FT), a
\* blank line, a line whose field-goal cell has no separator and whose
\* three-point cell is not numeric, a line without field-goal attempts, and
\* a high-volume line whose free-throw cell has the wrong separator.
StatLines ==
    { [position |-> "G", minutes |-> <<"3", "0">>, points |-> <<"1", "0">>,
       rebounds |-> <<"5">>, assists |-> <<"5">>, steals |-> <<"2">>,
       blocks |-> <<"0">>, turnovers |-> <<"0">>,
       field_goals |-> <<"4", "-", "8">>,
       three_pointers |-> <<"1", "-", "2">>,
       free_throws |-> <<"2", "-", "2">>],
      [position |-> "F", minutes |-> <<>>, points |-> <<>>,
       rebounds |-> <<>>, assists |-> <<>>, steals |-> <<>>,
       blocks |-> <<>>, turnovers |-> <<>>,
       field_goals |-> <<>>, three_pointers |-> <<>>, free_throws |-> <<>>],
      [position |-> "G", minutes |-> <<"1", "2">>, points |-> <<"7">>,
       rebounds |-> <<"3">>, assists |-> <<"3">>, steals |-> <<"0">>,
       blocks |-> <<"0">>, turnovers |-> <<"2">>,
       field_goals |-> <<"5">>,
       three_pointers |-> <<"a", "b", "c">>,
       free_throws |-> <<"1", "-", "2">>],
      [position |-> "C", minutes |-> <<"x">>, points |-> <<"2">>,
       rebounds |-> <<"4">>, assists |-> <<"4">>, steals |-> <<"2">>,
       blocks |-> <<"2">>, turnovers |-> <<"3">>,
       field_goals |-> <<"0", "-", "0">>,
       three_pointers |-> <<"0", "-", "0">>,
       free_throws |-> <<"2", "-", "3">>],
      [position |-> "F", minutes |-> <<"3", "5">>, points |-> <<"1", "8">>,
       rebounds |-> <<"1", "0">>, assists |-> <<"1">>, steals |-> <<"3">>,
       blocks |-> <<"0">>, turnovers |-> <<"4">>,
       field_goals |-> <<"8", "-", "1", "6">>,
       three_pointers |-> <<"2", "-", "5">>,
       free_throws |-> <<"5", "/", "1", "0">>] }

\* (name, team) pairs: two Maryland players, one name under two teams, and
\* names and teams that contain the hyphen the aggregation key is built with.
Players ==
    { <<"A", "Maryland">>, <<"B", "Maryland">>, <<"A", "B-C">>, <<"A-B", "C">> }

GameIds == {"g1", "g2"}

StatRow(name, team, fileId, line) ==
    [name |-> name, team |-> team, file_id |-> fileId,
     position |-> line.position, minutes |-> line.minutes,
     points |-> line.points, rebounds |-> line.rebounds,
     assists |-> line.assists, steals |-> line.steals,
     blocks |-> line.blocks, turnovers |-> line.turnovers,
     field_goals |-> line.field_goals,
     three_pointers |-> line.three_pointers,
     free_throws |-> line.free_throws]

SeqsUpTo(S, n) == UNION { [1..k -> S] : k \in 0..n }

(***************************************************************************)
(* aggregateSeasonStats (script.js:884-1007).                              *)
(***************************************************************************)
\* The text the code prints for the assist/turnover ratio of a player with
\* assists and no turnover: the one-character string U+221E (infinity).
InfinitySign == "inf"

\* const key = `${stat.name}-${stat.team}`
playerKey(stat) == stat.name \o "-" \o stat.team

\* The accumulator a key gets on its first row.
newPlayer(stat) ==
    [name |-> stat.name, team |-> stat.team, position |-> stat.position,
     games |-> 0, totalPoints |-> 0, totalRebounds |-> 0, totalAssists |-> 0,
     totalSteals |-> 0, totalBlocks |-> 0, totalTurnovers |-> 0,
     totalMinutes |-> 0,
     fgMade |-> 0, fgAttempted |-> Num(0),
     threeMade |-> 0, threeAttempted |-> Num(0),
     ftMade |-> 0, ftAttempted |-> Num(0)]

\* A shooting cell added to a (made, attempted) pair of running totals:
\* an empty cell is falsy and skipped.
addShooting(made, attempted, cell) ==
    IF cell = <<>> THEN [made |-> made, attempted |-> attempted]
    ELSE LET ma == parseMadeAttempted(cell)
         IN  [made |-> made + ma.made,
              attempted |-> JsAdd(attempted, ma.attempted)]

\* One row folded into its accumulator.
addRow(player, stat) ==
    LET fg == addShooting(player.fgMade, player.fgAttempted, stat.field_goals)
        three == addShooting(player.threeMade, player.threeAttempted,
                             stat.three_pointers)
        ft == addShooting(player.ftMade, player.ftAttempted, stat.free_throws)
    IN  [player EXCEPT
           !.games = @ + 1,
           !.totalPoints = @ + parseIntOrZero(stat.points),
           !.totalRebounds = @ + parseIntOrZero(stat.rebounds),
           !.totalAssists = @ + parseIntOrZero(stat.assists),
           !.totalSteals = @ + parseIntOrZero(stat.steals),
           !.totalBlocks = @ + parseIntOrZero(stat.blocks),
           !.totalTurnovers = @ + parseIntOrZero(stat.turnovers),
           !.totalMinutes = @ + parseIntOrZero(stat.minutes),
           !.fgMade = fg.made, !.fgAttempted = fg.attempted,
           !.threeMade = three.made, !.threeAttempted = three.attempted,
           !.ftMade = ft.made, !.ftAttempted = ft.attempted]

\* playerMap is a Map: its entries, in insertion order.
mapHas(playerMap, key) == \E i \in 1..Len(playerMap) : playerMap[i].key = key

mapIndex(playerMap, key) ==
    CHOOSE i \in 1..Len(playerMap) : playerMap[i].key = key

\* The body of stats.forEach: the row's key gets an accumulator when it has
\* none, and the row is folded into the accumulator of its key.
foldStat(playerMap, stat) ==
    LET key == playerKey(stat)
        m == IF mapHas(playerMap, key) THEN playerMap
             ELSE Append(playerMap, [key |-> key, player |-> newPlayer(stat)])
        i == mapIndex(m, key)
    IN  [m EXCEPT ![i].player = addRow(@, stat)]

RECURSIVE foldStats(_, _)
foldStats(playerMap, stats) ==
    IF stats = <<>> THEN playerMap
    ELSE foldStats(foldStat(playerMap, Head(stats)), Tail(stats))

\* shootingPct with the percentage cut after its first decimal instead of
\* rounded.
shootingPct_Truncated(made, attempted) ==
    IF JsGt(attempted, 0)
    THEN IntToStr((1000 * made) \div (10 * attempted.v)) \o "."
         \o IntToStr(((1000 * made) \div attempted.v) % 10)
    ELSE "0.0"

\* made / attempted * 100
pctOf(made, attempted) == Times(Over(Whole(made), Whole(attempted)), Whole(100))

\* (made / attempted * 100).toFixed(1), '0.0' without attempts
shootingPct(made, attempted) ==
    IF JsGt(attempted, 0)
    THEN toFixedOf(100 * made, attempted.v, 1, pctOf(made, attempted.v))
    ELSE "0.0"

\* points / (2 * (fga + 0.44 * fta)) * 100
trueShootingOf(points, fga, fta) ==
    Times(Over(Whole(points),
               Times(Whole(2), Plus(Whole(fga), Times(Hundredths(44), Whole(fta))))),
          Whole(100))

\* (fgm + 0.5 * threes) / fga * 100
effectiveFgOf(fgm, threes, fga) ==
    Times(Over(Plus(Whole(fgm), Times(Tenths(5), Whole(threes))), Whole(fga)),
          Whole(100))

\* tsPctOf with the factor 2 of the denominator forgotten.
tsPctOf_NoFactorTwo(player) ==
    IF JsGt(player.fgAttempted, 0) \/ JsGt(player.ftAttempted, 0)
    THEN IF player.fgAttempted.nan \/ player.ftAttempted.nan THEN NaNText
         ELSE toFixedOf(10000 * player.totalPoints,
                        100 * player.fgAttempted.v + 44 * player.ftAttempted.v,
                        1,
                        Times(Over(Whole(player.totalPoints),
                                   Plus(Whole(player.fgAttempted.v),
                                        Times(Hundredths(44),
                                              Whole(player.ftAttempted.v)))),
                              Whole(100)))
    ELSE "0.0"

\* True Shooting % = points / (2 * (FGA + 0.44 * FTA)) * 100
tsPctOf(player) ==
    IF JsGt(player.fgAttempted, 0) \/ JsGt(player.ftAttempted, 0)
    THEN IF player.fgAttempted.nan \/ player.ftAttempted.nan THEN NaNText
         ELSE toFixedOf(10000 * player.totalPoints,
                        200 * player.fgAttempted.v + 88 * player.ftAttempted.v,
                        1,
                        trueShootingOf(player.totalPoints, player.fgAttempted.v,
                                       player.ftAttempted.v))
    ELSE "0.0"

\* Effective FG% = (FGM + 0.5 * 3PM) / FGA * 100
efgPctOf(player) ==
    IF JsGt(player.fgAttempted, 0)
    THEN toFixedOf(100 * (2 * player.fgMade + player.threeMade),
                   2 * player.fgAttempted.v, 1,
                   effectiveFgOf(player.fgMade, player.threeMade,
                                 player.fgAttempted.v))
    ELSE "0.0"

\* astToRatioOf as the team totals compute it: the assists themselves when
\* there is no turnover.
astToRatioOf_NoSentinel(player) ==
    IF player.totalTurnovers > 0
    THEN toFixed(player.totalAssists, player.totalTurnovers, 2)
    ELSE toFixed(player.totalAssists, 1, 2)

\* Assist-to-Turnover Ratio
astToRatioOf(player) ==
    IF player.totalTurnovers > 0
    THEN toFixed(player.totalAssists, player.totalTurnovers, 2)
    ELSE IF player.totalAssists > 0 THEN InfinitySign ELSE "0.00"

\* Free Throw Rate = FTA / FGA
ftrOf(player) ==
    IF JsGt(player.fgAttempted, 0)
    THEN IF player.ftAttempted.nan THEN NaNText
         ELSE toFixed(player.ftAttempted.v, player.fgAttempted.v, 2)
    ELSE "0.00"

\* The sum of the game score, ten times over, as an integer: the rebounds
\* weigh reboundTenths tenths.
gameScoreSumTenths(player, reboundTenths) ==
    10 * player.totalPoints + 4 * player.fgMade
    - 7 * player.fgAttempted.v
    - 4 * (player.ftAttempted.v - player.ftMade)
    + reboundTenths * player.totalRebounds + 10 * player.totalSteals
    + 7 * player.totalAssists + 7 * player.totalBlocks
    - 10 * player.totalTurnovers

\* The sum of the game score as the code writes it, divided by the games;
\* the rebounds weigh reboundTenths tenths.
gameScorePerGame(player, reboundTenths) ==
    Over(Minus(Plus(Plus(Plus(Plus(Minus(Minus(Plus(
             Whole(player.totalPoints),
             Times(Tenths(4), Whole(player.fgMade))),
             Times(Tenths(7), Whole(player.fgAttempted.v))),
             Times(Tenths(4), Minus(Whole(player.ftAttempted.v),
                                    Whole(player.ftMade)))),
             Times(Tenths(reboundTenths), Whole(player.totalRebounds))),
             Whole(player.totalSteals)),
             Times(Tenths(7), Whole(player.totalAssists))),
             Times(Tenths(7), Whole(player.totalBlocks))),
             Whole(player.totalTurnovers)),
         Whole(player.games))

\* gameScoreOf with the canonical offensive-rebound weight 0.7 on the
\* combined rebounds.
gameScoreOf_OffensiveReboundWeight(player) ==
    IF player.fgAttempted.nan \/ player.ftAttempted.nan THEN NaNText
    ELSE toFixedOf(gameScoreSumTenths(player, 7), 10 * player.games, 1,
                   gameScorePerGame(player, 7))

\* Game Score per game:
\* PTS + 0.4*FGM - 0.7*FGA - 0.4*(FTA-FTM) + 0.5*REB + STL + 0.7*AST
\* + 0.7*BLK - TOV
gameScoreOf(player) ==
    IF player.fgAttempted.nan \/ player.ftAttempted.nan THEN NaNText
    ELSE toFixedOf(gameScoreSumTenths(player, 5), 10 * player.games, 1,
                   gameScorePerGame(player, 5))

\* The finished aggregate: the totals and the values derived from them.
finishPlayer(player) ==
    [name |-> player.name, team |-> player.team,
     position |-> player.position, games |-> player.games,
     totalPoints |-> player.totalPoints,
     totalRebounds |-> player.totalRebounds,
     totalAssists |-> player.totalAssists,
     totalSteals |-> player.totalSteals,
     totalBlocks |-> player.totalBlocks,
     totalTurnovers |-> player.totalTurnovers,
     totalMinutes |-> player.totalMinutes,
     fgMade |-> player.fgMade, fgAttempted |-> player.fgAttempted,
     threeMade |-> player.threeMade,
     threeAttempted |-> player.threeAttempted,
     ftMade |-> player.ftMade, ftAttempted |-> player.ftAttempted,
     ppg |-> toFixed(player.totalPoints, player.games, 1),
     rpg |-> toFixed(player.totalRebounds, player.games, 1),
     apg |-> toFixed(player.totalAssists, player.games, 1),
     spg |-> toFixed(player.totalSteals, player.games, 1),
     bpg |-> toFixed(player.totalBlocks, player.games, 1),
     topg |-> toFixed(player.totalTurnovers, player.games, 1),
     mpg |-> toFixed(player.totalMinutes, player.games, 1),
     fgPct |-> shootingPct(player.fgMade, player.fgAttempted),
     threePct |-> shootingPct(player.threeMade, player.threeAttempted),
     ftPct |-> shootingPct(player.ftMade, player.ftAttempted),
     tsPct |-> tsPctOf(player), efgPct |-> efgPctOf(player),
     astToRatio |-> astToRatioOf(player), ftr |-> ftrOf(player),
     gameScore |-> gameScoreOf(player)]

\* insertByPoints with the comparator reversed (a.totalPoints -
\* b.totalPoints).
RECURSIVE insertByPoints_Ascending(_, _)
insertByPoints_Ascending(sorted, p) ==
    IF sorted = <<>> THEN <<p>>
    ELSE IF Head(sorted).totalPoints <= p.totalPoints
         THEN <<Head(sorted)>> \o insertByPoints_Ascending(Tail(sorted), p)
         ELSE <<p>> \o sorted

\* seq.sort((a, b) => b.totalPoints - a.totalPoints): a stable sort, by
\* total points descending.
RECURSIVE insertByPoints(_, _)
insertByPoints(sorted, p) ==
    IF sorted = <<>> THEN <<p>>
    ELSE IF Head(sorted).totalPoints >= p.totalPoints
         THEN <<Head(sorted)>> \o insertByPoints(Tail(sorted), p)
         ELSE <<p>> \o sorted

RECURSIVE sortByPoints(_, _)
sortByPoints(sorted, rest) ==
    IF rest = <<>> THEN sorted
    ELSE sortByPoints(insertByPoints(sorted, Head(rest)), Tail(rest))

\* aggregateSeasonStats with playerMap kept between the calls: the rows are
\* folded into the accumulators the previous call left.
aggregateSeasonStats_SharedMap(stats) ==
    LET kept == [i \in 1..Len(seasonPlayerStats) |->
                   [key |-> playerKey(seasonPlayerStats[i]),
                    player |-> seasonPlayerStats[i]]]
        playerMap == foldStats(kept, stats)
        finished == [i \in 1..Len(playerMap) |-> finishPlayer(playerMap[i].player)]
    IN  sortByPoints(<<>>, finished)

\* The value aggregateSeasonStats(stats) leaves in seasonPlayerStats.
aggregateSeasonStats(stats) ==
    LET playerMap == foldStats(<<>>, stats)
        finished == [i \in 1..Len(playerMap) |-> finishPlayer(playerMap[i].player)]
    IN  sortByPoints(<<>>, finished)

(***************************************************************************)
(* Games (game_info.csv) and computeTeamSeasonTotals (script.js:245-356).  *)
(***************************************************************************)
Game(fileId, date, home, visiting, homeScore, visitingScore) ==
    [file_id |-> fileId, date |-> date,
     home_team |-> home, visiting_team |-> visiting,
     home_score |-> homeScore, visiting_score |-> visitingScore]

\* const isHome = game.home_team === 'Maryland'
isHome(game) == game.home_team = "Maryland"

\* marylandScore with the side ignored: always the home score.
marylandScoreOf_AlwaysHome(game) == parseInt(game.home_score)

\* const marylandScore = isHome ? parseInt(game.home_score)
\*                              : parseInt(game.visiting_score)
marylandScoreOf(game) ==
    IF isHome(game) THEN parseInt(game.home_score)
    ELSE parseInt(game.visiting_score)

\* const opponentScore = isHome ? parseInt(game.visiting_score)
\*                              : parseInt(game.home_score)
opponentScoreOf(game) ==
    IF isHome(game) THEN parseInt(game.visiting_score)
    ELSE parseInt(game.home_score)

\* A tie counted as a win.
isWin_TieWins(game) ==
    LET m == marylandScoreOf(game)
        o == opponentScoreOf(game)
    IN  ~m.nan /\ ~o.nan /\ m.v >= o.v

\* marylandScore > opponentScore: false when either is NaN.
isWin(game) ==
    LET m == marylandScoreOf(game)
        o == opponentScoreOf(game)
    IN  ~m.nan /\ ~o.nan /\ m.v > o.v

\* teamStats.maryland before any game or row.
newTeam ==
    [games |-> 0, wins |-> 0, losses |-> 0,
     points |-> Num(0), pointsAllowed |-> Num(0),
     rebounds |-> 0, assists |-> 0, steals |-> 0, blocks |-> 0,
     turnovers |-> 0,
     fgMade |-> 0, fgAttempted |-> Num(0),
     threeMade |-> 0, threeAttempted |-> Num(0),
     ftMade |-> 0, ftAttempted |-> Num(0)]

\* The body of games.forEach.
addGame(md, game) ==
    [md EXCEPT
       !.games = @ + 1,
       !.points = JsAdd(@, marylandScoreOf(game)),
       !.pointsAllowed = JsAdd(@, opponentScoreOf(game)),
       !.wins = IF isWin(game) THEN @ + 1 ELSE @,
       !.losses = IF isWin(game) THEN @ ELSE @ + 1]

RECURSIVE addGames(_, _)
addGames(md, games) ==
    IF games = <<>> THEN md ELSE addGames(addGame(md, Head(games)), Tail(games))

\* The body of playerStats.filter(s => s.team === 'Maryland').forEach.
addTeamRow(md, stat) ==
    IF stat.team # "Maryland" THEN md
    ELSE
    LET fg == addShooting(md.fgMade, md.fgAttempted, stat.field_goals)
        three == addShooting(md.threeMade, md.threeAttempted,
                             stat.three_pointers)
        ft == addShooting(md.ftMade, md.ftAttempted, stat.free_throws)
    IN  [md EXCEPT
           !.rebounds = @ + parseIntOrZero(stat.rebounds),
           !.assists = @ + parseIntOrZero(stat.assists),
           !.steals = @ + parseIntOrZero(stat.steals),
           !.blocks = @ + parseIntOrZero(stat.blocks),
           !.turnovers = @ + parseIntOrZero(stat.turnovers),
           !.fgMade = fg.made, !.fgAttempted = fg.attempted,
           !.threeMade = three.made, !.threeAttempted = three.attempted,
           !.ftMade = ft.made, !.ftAttempted = ft.attempted]

RECURSIVE addTeamRows(_, _)
addTeamRows(md, stats) ==
    IF stats = <<>> THEN md
    ELSE addTeamRows(addTeamRow(md, Head(stats)), Tail(stats))

\* (x / d).toFixed(f) for a number x that may be NaN.
toFixedNum(x, d, f) == IF x.nan THEN NaNText ELSE toFixed(x.v, d, f)

\* const tsPct = (FGA + 0.44 * FTA) > 0
\*     ? (points / (2 * (FGA + 0.44 * FTA)) * 100) : 0
teamTsPct(md) ==
    IF md.fgAttempted.nan \/ md.ftAttempted.nan THEN "0.0"
    ELSE IF 100 * md.fgAttempted.v + 44 * md.ftAttempted.v > 0
         THEN IF md.points.nan THEN NaNText
              ELSE toFixedOf(10000 * md.points.v,
                             200 * md.fgAttempted.v + 88 * md.ftAttempted.v, 1,
                             trueShootingOf(md.points.v, md.fgAttempted.v,
                                            md.ftAttempted.v))
         ELSE "0.0"

\* const efgPct = FGA > 0 ? ((FGM + 0.5 * 3PM) / FGA * 100) : 0
teamEfgPct(md) ==
    IF JsGt(md.fgAttempted, 0)
    THEN toFixedOf(100 * (2 * md.fgMade + md.threeMade),
                   2 * md.fgAttempted.v, 1,
                   effectiveFgOf(md.fgMade, md.threeMade, md.fgAttempted.v))
    ELSE "0.0"

\* const ftRate = FGA > 0 ? (FTA / FGA) : 0
teamFtRate(md) ==
    IF JsGt(md.fgAttempted, 0)
    THEN toFixedNum(md.ftAttempted, md.fgAttempted.v, 2)
    ELSE "0.00"

\* const astToRatio = turnovers > 0 ? (assists / turnovers) : assists
teamAstToRatio(md) ==
    IF md.turnovers > 0 THEN toFixed(md.assists, md.turnovers, 2)
    ELSE toFixed(md.assists, 1, 2)

\* const netRating = offRating - defRating, printed with one decimal
teamNetRating(md, gamesPlayed) ==
    IF md.points.nan \/ md.pointsAllowed.nan THEN NaNText
    ELSE toFixedOf(md.points.v - md.pointsAllowed.v, gamesPlayed, 1,
                   Minus(Over(Whole(md.points.v), Whole(gamesPlayed)),
                         Over(Whole(md.pointsAllowed.v), Whole(gamesPlayed))))

\* win_pct: md.games > 0 ? (md.wins / md.games * 100) : 0, a number
teamWinPct(md) ==
    Number(IF md.games > 0 THEN pctOf(md.wins, md.games) ELSE Whole(0))

\* The row computeTeamSeasonTotals stores for the accumulated totals md.
teamRow(md) ==
    LET gamesPlayed == IF md.games = 0 THEN 1 ELSE md.games
    IN  [team |-> "Maryland",
         games |-> md.games, wins |-> md.wins, losses |-> md.losses,
         win_pct |-> teamWinPct(md),
         ppg |-> toFixedNum(md.points, gamesPlayed, 1),
         rpg |-> toFixed(md.rebounds, gamesPlayed, 1),
         apg |-> toFixed(md.assists, gamesPlayed, 1),
         spg |-> toFixed(md.steals, gamesPlayed, 1),
         bpg |-> toFixed(md.blocks, gamesPlayed, 1),
         tpg |-> toFixed(md.turnovers, gamesPlayed, 1),
         fg_pct |-> shootingPct(md.fgMade, md.fgAttempted),
         three_pt_pct |-> shootingPct(md.threeMade, md.threeAttempted),
         ft_pct |-> shootingPct(md.ftMade, md.ftAttempted),
         efg_pct |-> teamEfgPct(md),
         ts_pct |-> teamTsPct(md),
         ft_rate |-> teamFtRate(md),
         ast_to_ratio |-> teamAstToRatio(md),
         off_rating |-> toFixedNum(md.points, gamesPlayed, 1),
         def_rating |-> toFixedNum(md.pointsAllowed, gamesPlayed, 1),
         net_rating |-> teamNetRating(md, gamesPlayed)]

\* The value computeTeamSeasonTotals(games, playerStats) leaves in
\* seasonTeamTotals.
computeTeamSeasonTotals(games, playerStats) ==
    <<teamRow(addTeamRows(addGames(newTeam, games), playerStats))>>

(***************************************************************************)
(* The state of the page when the script has loaded (script.js:1-21), the  *)
(* season filter controls holding the values clearSeasonStatsFilter gives  *)
(* them.                                                                   *)
(***************************************************************************)
NoSeason == "null"

NoFiles == [games |-> <<>>, stats |-> <<>>, teamTotals |-> <<>>]

clearedFilter ==
    [minGames |-> <<"0">>, minPoints |-> <<"0">>, minRebounds |-> <<"0">>,
     minAssists |-> <<"0">>, team |-> "Maryland"]

\* Every global but the three a function-level specification draws.
\* No game is selected: the plays lists are empty and the filter is clear.
NoPlaysFilter == [team |-> "", playType |-> "", action |-> "", player |-> ""]

NoGame == "null"

\* The stats filter controls with the values clearStatsFilter gives them.
clearedStatsFilter ==
    [minPoints |-> <<"0">>, minRebounds |-> <<"0">>, minAssists |-> <<"0">>]

NoGameFiles == [plays |-> <<>>, teamTotals |-> <<>>, periodScores |-> <<>>]

NoGameLoaded ==
    /\ currentGameId = NoGame
    /\ pendingGames = EmptyBag
    /\ gameFiles = NoGameFiles
    /\ allStats = <<>>
    /\ filteredStats = <<>>
    /\ statsFilter = clearedStatsFilter
    /\ allTeamTotals = <<>>
    /\ allPeriodScores = <<>>

NoGameSelected ==
    /\ allPlays = <<>>
    /\ filteredPlays = <<>>
    /\ playsFilter = NoPlaysFilter
    /\ NoGameLoaded

\* The analysis has read no play of its stream.
NothingRead ==
    /\ playsRead = 0
    /\ substitutionEvents = <<>>
    /\ diagnostics = 0
    /\ massSubstitutions = <<>>
    /\ timingHistogram = <<>>
    /\ assistEdges = <<>>
    /\ assisterTotals = <<>>
    /\ scorerTotals = <<>>

NothingAnalysed ==
    /\ playByPlay = <<>>
    /\ NothingRead

GlobalsLoaded ==
    /\ currentSeason = NoSeason
    /\ files = NoFiles
    /\ pending = EmptyBag
    /\ allGames = <<>>
    /\ selectedGameIndex = -1
    /\ seasonPlayerStats = <<>>
    /\ filteredSeasonStats = <<>>
    /\ seasonTeamTotals = <<>>
    /\ seasonFilter = clearedFilter
    /\ clockText = ""
    /\ lastOp = "load"

(***************************************************************************)
(* SpecAggregate: aggregateSeasonStats applied to every list of at most    *)
(* MaxRows player-game rows.                                               *)
(***************************************************************************)
AggregateRows ==
    { StatRow(p[1], p[2], "g1", line) : p \in Players, line \in StatLines }

InitAggregate ==
    /\ GlobalsLoaded
    /\ NoGameSelected
    /\ NothingAnalysed
    /\ allSeasonStats \in SeqsUpTo(AggregateRows, MaxRows)
    /\ sortedGames = <<>>
    /\ clockArg = <<>>

\* aggregateSeasonStats(allSeasonStats)
AggregateSeasonStats ==
    /\ lastOp = "load"
    /\ seasonPlayerStats' = aggregateSeasonStats(allSeasonStats)
    /\ filteredSeasonStats' = seasonPlayerStats'
    /\ lastOp' = "aggregateSeasonStats"
    /\ UNCHANGED <<gameVars, analysisVars>>
    /\ UNCHANGED <<currentSeason, files, pending, allGames, allSeasonStats,
                   sortedGames, selectedGameIndex, seasonTeamTotals,
                   seasonFilter, clockArg, clockText>>

NextAggregate == AggregateSeasonStats

SpecAggregate == InitAggregate /\ [][NextAggregate]_vars

(***************************************************************************)
(* SpecTeamTotals: computeTeamSeasonTotals applied to every list of at     *)
(* most MaxTeamGames Maryland games and at most MaxTeamRows player rows.   *)
(***************************************************************************)
\* Score cells <<home_score, visiting_score>>: two home wins, two visiting
\* wins, a tie, and an empty home score.
ScoreCells ==
    { <<<<"6", "0">>, <<"5", "5">>>>, <<<<"7", "0">>, <<"6", "5">>>>,
      <<<<"5", "5">>, <<"6", "0">>>>, <<<<"6", "5">>, <<"7", "0">>>>,
      <<<<"6", "0">>, <<"6", "0">>>>, <<<<>>, <<"6", "0">>>> }

TeamGames ==
    { Game("g1", 1, "Maryland", "C", sc[1], sc[2]) : sc \in ScoreCells }
    \cup { Game("g1", 1, "C", "Maryland", sc[1], sc[2]) : sc \in ScoreCells }

TeamRows ==
    { StatRow("A", "Maryland", "g1", line) :
        line \in { l \in StatLines : l.position # "C" /\ l.minutes # <<>> } }
    \cup { StatRow("A", "B-C", "g1", line) :
             line \in { l \in StatLines : l.points = <<"1", "0">> } }

InitTeamTotals ==
    /\ GlobalsLoaded
    /\ NoGameSelected
    /\ NothingAnalysed
    /\ sortedGames \in SeqsUpTo(TeamGames, MaxTeamGames)
    /\ allSeasonStats \in SeqsUpTo(TeamRows, MaxTeamRows)
    /\ clockArg = <<>>

\* computeTeamSeasonTotals(sortedGames, allSeasonStats)
ComputeTeamSeasonTotals ==
    /\ lastOp = "load"
    /\ seasonTeamTotals' = computeTeamSeasonTotals(sortedGames, allSeasonStats)
    /\ lastOp' = "computeTeamSeasonTotals"
    /\ UNCHANGED <<gameVars, analysisVars>>
    /\ UNCHANGED <<currentSeason, files, pending, allGames, allSeasonStats,
                   sortedGames, selectedGameIndex, seasonPlayerStats,
                   filteredSeasonStats, seasonFilter, clockArg, clockText>>

NextTeamTotals == ComputeTeamSeasonTotals

SpecTeamTotals == InitTeamTotals /\ [][NextTeamTotals]_vars

(***************************************************************************)
(* The season view: selectSeason, setupGameTimeline, updateGameTimeline    *)
(* and the season filter (script.js:110-243, 1009-1038).                   *)
(***************************************************************************)
\* The games with the first row of each file_id kept (seenIds).
RECURSIVE uniqueGames(_, _)
uniqueGames(games, seenIds) ==
    IF games = <<>> THEN <<>>
    ELSE IF Head(games).file_id \in seenIds
         THEN uniqueGames(Tail(games), seenIds)
         ELSE <<Head(games)>>
              \o uniqueGames(Tail(games), seenIds \cup {Head(games).file_id})

\* uniqueGames.sort((a, b) => new Date(a.date) - new Date(b.date)): dates
\* are day numbers; the sort is stable.
RECURSIVE insertByDate(_, _)
insertByDate(sorted, game) ==
    IF sorted = <<>> THEN <<game>>
    ELSE IF Head(sorted).date <= game.date
         THEN <<Head(sorted)>> \o insertByDate(Tail(sorted), game)
         ELSE <<game>> \o sorted

RECURSIVE sortByDate(_)
sortByDate(games) ==
    IF games = <<>> THEN <<>>
    ELSE insertByDate(sortByDate(SubSeq(games, 1, Len(games) - 1)),
                      games[Len(games)])

isMarylandGame(game) ==
    game.home_team = "Maryland" \/ game.visiting_team = "Maryland"

\* The value setupGameTimeline gives sortedGames.
timelineGames_Unsorted(games) ==
    SelectSeq(uniqueGames(games, {}), isMarylandGame)

timelineGames(games) ==
    SelectSeq(sortByDate(uniqueGames(games, {})), isMarylandGame)

\* The aggregates applySeasonStatsFilter keeps under the given controls.
seasonFilterOf(players, controls) ==
    LET minGames == parseIntOrZero(controls.minGames)
        minPoints == parseIntOrZero(controls.minPoints)
        minRebounds == parseIntOrZero(controls.minRebounds)
        minAssists == parseIntOrZero(controls.minAssists)
        keep(player) ==
            /\ ~(player.games < minGames)
            /\ ~(player.totalPoints < minPoints)
            /\ ~(player.totalRebounds < minRebounds)
            /\ ~(player.totalAssists < minAssists)
            /\ ~(controls.team # "" /\ player.team # controls.team)
    IN  SelectSeq(players, keep)

\* const filteredStats = allSeasonStats.filter(stat =>
\*     gameIdsThrough.has(stat.file_id))
statsThrough_OnlyThisGame(games, index, stats) ==
    LET gameIdsThrough == { games[i].file_id : i \in {index + 1} }
        through(stat) == stat.file_id \in gameIdsThrough
    IN  SelectSeq(stats, through)

statsThrough(games, index, stats) ==
    LET gameIdsThrough == { games[i].file_id : i \in 1..(index + 1) }
        through(stat) == stat.file_id \in gameIdsThrough
    IN  SelectSeq(stats, through)

\* The rows of team_season_totals.csv: one row per team of the season, in
\* the order the teams appear in the games and then in the player rows.
RECURSIVE teamsInOrder(_, _)
teamsInOrder(names, seen) ==
    IF names = <<>> THEN <<>>
    ELSE IF Head(names) \in seen THEN teamsInOrder(Tail(names), seen)
         ELSE <<[team |-> Head(names)]>>
              \o teamsInOrder(Tail(names), seen \cup {Head(names)})

RECURSIVE teamNames(_)
teamNames(games) ==
    IF games = <<>> THEN <<>>
    ELSE <<Head(games).home_team, Head(games).visiting_team>>
         \o teamNames(Tail(games))

teamSeasonTotalsFile(games, stats) ==
    teamsInOrder(teamNames(games) \o [i \in DOMAIN stats |-> stats[i].team], {})

Seasons == {"2024-25", "2025-26"}

\* The season whose files the server holds; every fetch of another season
\* fails and loadCSV returns [].
DataSeason == "2024-25"

LineWith(points) == CHOOSE l \in StatLines : l.points = points

\* A Maryland home win, an earlier Maryland road win, a second row with the
\* first game's file_id, and a game Maryland did not play.
SeasonGames ==
    { Game("g1", 2, "Maryland", "B-C", <<"6", "0">>, <<"5", "5">>),
      Game("g2", 1, "C", "Maryland", <<"6", "5">>, <<"7", "0">>),
      Game("g1", 3, "Maryland", "C", <<"5", "0">>, <<"5", "2">>),
      Game("g3", 1, "C", "B-C", <<"4", "0">>, <<"4", "1">>) }

SeasonRows ==
    { StatRow("A", "Maryland", "g1", LineWith(<<"1", "0">>)),
      StatRow("A", "Maryland", "g2", LineWith(<<"7">>)),
      StatRow("A", "B-C", "g1", LineWith(<<"1", "0">>)) }

SeasonFiles ==
    { [games |-> g, stats |-> r, teamTotals |-> teamSeasonTotalsFile(g, r)] :
        g \in SeqsUpTo(SeasonGames, MaxGames),
        r \in SeqsUpTo(SeasonRows, MaxSeasonRows) }

\* What loadCSV returns for the files of a season.
loadCSV(season) == IF season = DataSeason THEN files ELSE NoFiles

\* Control values a user applies: the cleared ones, at least two games of
\* any team, and at least 10 points with blank other minimums.
FilterSettings ==
    { clearedFilter,
      [minGames |-> <<"2">>, minPoints |-> <<"0">>, minRebounds |-> <<"0">>,
       minAssists |-> <<"0">>, team |-> ""],
      [minGames |-> <<>>, minPoints |-> <<"1", "0">>, minRebounds |-> <<>>,
       minAssists |-> <<>>, team |-> ""] }

Init ==
    /\ NoGameSelected
    /\ NothingAnalysed
    /\ currentSeason = NoSeason
    /\ files \in SeasonFiles
    /\ pending = EmptyBag
    /\ allGames = <<>>
    /\ allSeasonStats = <<>>
    /\ sortedGames = <<>>
    /\ selectedGameIndex = -1
    /\ seasonPlayerStats = <<>>
    /\ filteredSeasonStats = <<>>
    /\ seasonTeamTotals = <<>>
    /\ seasonFilter = clearedFilter
    /\ clockArg = <<>>
    /\ clockText = ""
    /\ lastOp = "load"

\* selectSeason(season) up to its await.
SelectSeason(season) ==
    /\ BagCardinality(pending) < MaxLoads
    /\ currentSeason' = season
    /\ pending' = pending (+) SetToBag({season})
    /\ lastOp' = "selectSeason"
    /\ UNCHANGED <<gameVars, analysisVars>>
    /\ UNCHANGED <<files, allGames, allSeasonStats, sortedGames,
                   selectedGameIndex, seasonPlayerStats, filteredSeasonStats,
                   seasonTeamTotals, seasonFilter, clockArg, clockText>>

\* updateGameTimeline(gameNumber) with sortedGames = games and
\* allSeasonStats = stats: what it assigns to selectedGameIndex,
\* seasonPlayerStats, filteredSeasonStats and seasonTeamTotals (totals is
\* the value seasonTeamTotals has when it is called).
updateGameTimeline_Unfiltered(gameNumber, games, stats, totals) ==
    \E index \in {gameNumber - 1} :
        /\ selectedGameIndex' = index
        /\ IF index + 1 \notin DOMAIN games
           THEN /\ seasonTeamTotals' = totals
                /\ UNCHANGED <<seasonPlayerStats, filteredSeasonStats>>
           ELSE \E statsThroughGame \in {statsThrough(games, index, stats)} :
                \E gamesThrough \in {SubSeq(games, 1, index + 1)} :
                    /\ seasonPlayerStats' = aggregateSeasonStats(statsThroughGame)
                    /\ seasonTeamTotals' =
                           computeTeamSeasonTotals(gamesThrough, statsThroughGame)
                    /\ filteredSeasonStats' = seasonPlayerStats'

updateGameTimeline(gameNumber, games, stats, totals) ==
    \E index \in {gameNumber - 1} :
        /\ selectedGameIndex' = index
        /\ IF index + 1 \notin DOMAIN games
           THEN /\ seasonTeamTotals' = totals
                /\ UNCHANGED <<seasonPlayerStats, filteredSeasonStats>>
           ELSE \E statsThroughGame \in {statsThrough(games, index, stats)} :
                \E gamesThrough \in {SubSeq(games, 1, index + 1)} :
                    /\ seasonPlayerStats' = aggregateSeasonStats(statsThroughGame)
                    /\ seasonTeamTotals' =
                           computeTeamSeasonTotals(gamesThrough, statsThroughGame)
                    /\ filteredSeasonStats' =
                           seasonFilterOf(seasonPlayerStats', seasonFilter)

\* selectSeason(season) from its await on: the six loads have settled, the
\* globals are assigned and setupGameTimeline runs.
SeasonLoaded(season) ==
    /\ BagIn(season, pending)
    /\ pending' = pending (-) SetToBag({season})
    /\ \E loaded \in {loadCSV(season)} :
          /\ allGames' = loaded.games
          /\ allSeasonStats' = loaded.stats
          /\ sortedGames' = timelineGames(loaded.games)
          /\ IF sortedGames' = <<>>
             THEN /\ seasonPlayerStats' = aggregateSeasonStats(allSeasonStats')
                  /\ seasonTeamTotals' = loaded.teamTotals
                  /\ filteredSeasonStats' =
                         seasonFilterOf(seasonPlayerStats', seasonFilter)
                  /\ UNCHANGED selectedGameIndex
             ELSE updateGameTimeline(Len(sortedGames'), sortedGames',
                                     allSeasonStats', loaded.teamTotals)
    /\ allStats' = allSeasonStats'
    /\ lastOp' = "seasonLoaded"
    /\ UNCHANGED <<allPlays, filteredPlays, playsFilter, currentGameId,
                   pendingGames, gameFiles, filteredStats, statsFilter,
                   allTeamTotals, allPeriodScores, analysisVars>>
    /\ UNCHANGED <<currentSeason, files, seasonFilter, clockArg, clockText>>

\* The slider's oninput: updateGameTimeline(gameNumber), gameNumber within
\* the slider's range 1..sortedGames.length.
UpdateGameTimeline(gameNumber) ==
    /\ gameNumber \in 1..Len(sortedGames)
    /\ updateGameTimeline(gameNumber, sortedGames, allSeasonStats,
                          seasonTeamTotals)
    /\ lastOp' = "updateGameTimeline"
    /\ UNCHANGED <<gameVars, analysisVars>>
    /\ UNCHANGED <<currentSeason, files, pending, allGames, allSeasonStats,
                   sortedGames, seasonFilter, clockArg, clockText>>

\* The controls are set to the given values and applySeasonStatsFilter runs.
ApplySeasonStatsFilter_InPlace(controls) ==
    /\ currentSeason # NoSeason
    /\ seasonFilter' = controls
    /\ seasonPlayerStats' = seasonFilterOf(seasonPlayerStats, controls)
    /\ filteredSeasonStats' = seasonPlayerStats'
    /\ lastOp' = "applySeasonStatsFilter"
    /\ UNCHANGED <<gameVars, analysisVars>>
    /\ UNCHANGED <<currentSeason, files, pending, allGames, allSeasonStats,
                   sortedGames, selectedGameIndex, seasonTeamTotals,
                   clockArg, clockText>>

ApplySeasonStatsFilter(controls) ==
    /\ currentSeason # NoSeason
    /\ seasonFilter' = controls
    /\ filteredSeasonStats' = seasonFilterOf(seasonPlayerStats, controls)
    /\ lastOp' = "applySeasonStatsFilter"
    /\ UNCHANGED <<gameVars, analysisVars>>
    /\ UNCHANGED <<currentSeason, files, pending, allGames, allSeasonStats,
                   sortedGames, selectedGameIndex, seasonPlayerStats,
                   seasonTeamTotals, clockArg, clockText>>

ClearSeasonStatsFilter ==
    /\ currentSeason # NoSeason
    /\ seasonFilter' = clearedFilter
    /\ filteredSeasonStats' = seasonFilterOf(seasonPlayerStats, clearedFilter)
    /\ lastOp' = "clearSeasonStatsFilter"
    /\ UNCHANGED <<gameVars, analysisVars>>
    /\ UNCHANGED <<currentSeason, files, pending, allGames, allSeasonStats,
                   sortedGames, selectedGameIndex, seasonPlayerStats,
                   seasonTeamTotals, clockArg, clockText>>

Next ==
    \/ \E season \in Seasons : SelectSeason(season)
    \/ \E season \in Seasons : SeasonLoaded(season)
    \/ \E gameNumber \in 1..MaxGames : UpdateGameTimeline(gameNumber)
    \/ \E controls \in FilterSettings : ApplySeasonStatsFilter(controls)
    \/ ClearSeasonStatsFilter

Spec == Init /\ [][Next]_vars

(***************************************************************************)
(* SpecTimeline: the season with files is selected, again and again, and   *)
(* the timeline slider is moved; the filter controls are left alone.       *)
(***************************************************************************)
NextTimeline ==
    \/ SelectSeason(DataSeason)
    \/ SeasonLoaded(DataSeason)
    \/ \E gameNumber \in 1..MaxGames : UpdateGameTimeline(gameNumber)

SpecTimeline == Init /\ [][NextTimeline]_vars

(***************************************************************************)
(* The record shown under the timeline slider (script.js:212-227).         *)
(***************************************************************************)
\* let wins = 0, losses = 0; for (let i = 0; i <= index; i++) { ... }
RECURSIVE recordFrom(_, _, _, _)
recordFrom(games, i, index, record) ==
    IF i > index THEN record
    ELSE LET g == games[i + 1]
             gIsHome == g.home_team = "Maryland"
             gMarylandScore == IF gIsHome THEN parseInt(g.home_score)
                               ELSE parseInt(g.visiting_score)
             gOpponentScore == IF gIsHome THEN parseInt(g.visiting_score)
                               ELSE parseInt(g.home_score)
         IN  IF /\ ~gMarylandScore.nan
                /\ ~gOpponentScore.nan
                /\ gMarylandScore.v > gOpponentScore.v
             THEN recordFrom(games, i + 1, index,
                             [record EXCEPT !.wins = @ + 1])
             ELSE recordFrom(games, i + 1, index,
                             [record EXCEPT !.losses = @ + 1])

\* The wins and losses written to 'timeline-record'.
timelineRecord_BeforeIndex(games, index) ==
    recordFrom(games, 0, index - 1, [wins |-> 0, losses |-> 0])

timelineRecord(games, index) ==
    recordFrom(games, 0, index, [wins |-> 0, losses |-> 0])

(***************************************************************************)
(* SpecSeasonFilter: the season with files is selected, the timeline       *)
(* slider is moved and the season filter is applied and cleared.           *)
(***************************************************************************)
NextSeasonFilter ==
    \/ SelectSeason(DataSeason)
    \/ SeasonLoaded(DataSeason)
    \/ \E gameNumber \in 1..MaxGames : UpdateGameTimeline(gameNumber)
    \/ \E controls \in FilterSettings : ApplySeasonStatsFilter(controls)
    \/ ClearSeasonStatsFilter

SpecSeasonFilter == Init /\ [][NextSeasonFilter]_vars

(***************************************************************************)
(* SpecFormatTime: formatTime applied to the seconds 0..MaxClockSeconds,   *)
(* to their negatives and to cells that hold no integer.                   *)
(***************************************************************************)
RECURSIVE DigitsOf(_)
DigitsOf(n) ==
    IF n < 10 THEN <<DigitChars[n + 1]>>
    ELSE Append(DigitsOf(n \div 10), DigitChars[(n % 10) + 1])

ClockCells ==
    { DigitsOf(n) : n \in 0..MaxClockSeconds }
    \cup { <<"-">> \o DigitsOf(n) : n \in 1..MaxClockSeconds }
    \cup { <<>>, <<"a", "b", "c">>, <<"-">>, <<":", "3", "0">>,
           <<"1", "2", ".", "5">>, <<" ", "7">> }

InitFormatTime ==
    /\ GlobalsLoaded
    /\ NoGameSelected
    /\ NothingAnalysed
    /\ allSeasonStats = <<>>
    /\ sortedGames = <<>>
    /\ clockArg \in ClockCells

\* formatTime(clockArg)
FormatTime ==
    /\ lastOp = "load"
    /\ clockText' = formatTime(clockArg)
    /\ lastOp' = "formatTime"
    /\ UNCHANGED <<gameVars, analysisVars>>
    /\ UNCHANGED <<currentSeason, files, pending, allGames, allSeasonStats,
                   sortedGames, selectedGameIndex, seasonPlayerStats,
                   filteredSeasonStats, seasonTeamTotals, seasonFilter,
                   clockArg>>

NextFormatTime == FormatTime

SpecFormatTime == InitFormatTime /\ [][NextFormatTime]_vars

(***************************************************************************)
(* Vocabulary of the properties.                                           *)
(***************************************************************************)
Aggregated == lastOp = "aggregateSeasonStats"

Abs(x) == IF x < 0 THEN 0 - x ELSE x

RECURSIVE SumSeq(_)
SumSeq(s) == IF s = <<>> THEN 0 ELSE Head(s) + SumSeq(Tail(s))

\* text is the quotient n/d (d > 0) printed with f decimals: it prints a
\* multiple k of 10^-f that lies within half a unit of the last decimal of
\* n/d.
IsRounded(text, n, d, f) ==
    LET q == (Pow10(f) * n) \div d
    IN  \E k \in {q, q + 1} :
            /\ text = toFixed(k, Pow10(f), f)
            /\ 2 * Abs(k * d - Pow10(f) * n) <= d

\* The rows of the input that carry the given name and team.
RowsOf(name, team) ==
    { j \in DOMAIN allSeasonStats :
        allSeasonStats[j].name = name /\ allSeasonStats[j].team = team }

\* The rows of the input that were folded into the aggregate a.
RowsFoldedInto(a) ==
    { j \in DOMAIN allSeasonStats : playerKey(allSeasonStats[j]) = playerKey(a) }

IsDigits(s) == s # <<>> /\ \A i \in DOMAIN s : IsDigit(s[i])

\* A shooting cell of the form <digits>-<digits>.
WellFormedShooting(cell) ==
    LET parts == split(cell, "-")
    IN  Len(parts) = 2 /\ IsDigits(parts[1]) /\ IsDigits(parts[2])

\* What a shooting cell stands for: its two numbers, (0, 0) when it is
\* empty or malformed.
CellMade(cell) ==
    IF WellFormedShooting(cell) THEN DigitsValue(split(cell, "-")[1], 0) ELSE 0

CellAttempted(cell) ==
    IF WellFormedShooting(cell) THEN DigitsValue(split(cell, "-")[2], 0) ELSE 0

\* The sum of Val over the rows folded into a, for the three shooting cells.
MadeSum(a, field) ==
    SumSeq([j \in DOMAIN allSeasonStats |->
              IF j \in RowsFoldedInto(a)
              THEN CellMade(allSeasonStats[j][field]) ELSE 0])

AttemptedSum(a, field) ==
    SumSeq([j \in DOMAIN allSeasonStats |->
              IF j \in RowsFoldedInto(a)
              THEN CellAttempted(allSeasonStats[j][field]) ELSE 0])

\* An aggregate without its position (the position is the first row's).
Positionless(a) == [a EXCEPT !.position = ""]

KeyView(stats) == { Positionless(stats[i]) : i \in DOMAIN stats }

Reordered(rows, perm) == [i \in DOMAIN rows |-> rows[perm[i]]]

(***************************************************************************)
(* Properties of aggregateSeasonStats, checked under SpecAggregate.        *)
(***************************************************************************)
\* C1: after aggregateSeasonStats(rows), every aggregate's games equals the
\* number of input rows that have the aggregate's (name, team), and the
\* games of all aggregates sum to the number of input rows.
C1_GamesEqualsRowsOfNameTeam ==
    Aggregated =>
        /\ \A i \in DOMAIN seasonPlayerStats :
              seasonPlayerStats[i].games =
                Cardinality(RowsOf(seasonPlayerStats[i].name,
                                   seasonPlayerStats[i].team))
        /\ SumSeq([i \in DOMAIN seasonPlayerStats |->
                     seasonPlayerStats[i].games]) = Len(allSeasonStats)

\* C2: an empty or malformed shooting cell counts as (0, 0): the made and
\* attempted totals of every aggregate are numbers (never NaN) and equal the
\* sums of the well-formed cells of the rows folded into it.
C2_MalformedShootingCellIsZero ==
    Aggregated =>
        \A i \in DOMAIN seasonPlayerStats :
            LET a == seasonPlayerStats[i]
            IN  /\ ~a.fgAttempted.nan
                /\ ~a.threeAttempted.nan
                /\ ~a.ftAttempted.nan
                /\ a.fgMade = MadeSum(a, "field_goals")
                /\ a.fgAttempted.v = AttemptedSum(a, "field_goals")
                /\ a.threeMade = MadeSum(a, "three_pointers")
                /\ a.threeAttempted.v = AttemptedSum(a, "three_pointers")
                /\ a.ftMade = MadeSum(a, "free_throws")
                /\ a.ftAttempted.v = AttemptedSum(a, "free_throws")

\* C3: there is exactly one aggregate per distinct (name, team) pair of the
\* input, so two rows share an aggregate iff they agree on name and team.
C3_OneAggregatePerNameTeam ==
    Aggregated =>
        /\ \A j \in DOMAIN allSeasonStats :
              Cardinality({ i \in DOMAIN seasonPlayerStats :
                  /\ seasonPlayerStats[i].name = allSeasonStats[j].name
                  /\ seasonPlayerStats[i].team = allSeasonStats[j].team }) = 1
        /\ Len(seasonPlayerStats) =
              Cardinality({ <<allSeasonStats[j].name, allSeasonStats[j].team>> :
                              j \in DOMAIN allSeasonStats })

\* C4: every reordering of the input rows gives every (name, team) key the
\* same games, totals and derived metrics.
C4_OrderIndependent ==
    Aggregated =>
        \A perm \in Permutations(DOMAIN allSeasonStats) :
            KeyView(aggregateSeasonStats(Reordered(allSeasonStats, perm)))
                = KeyView(seasonPlayerStats)

\* C5: the assist/turnover output of every aggregate is assists/turnovers
\* (to two decimals) when it has turnovers, the non-numeric sentinel when it
\* has assists and no turnover, and 0.00 when it has neither.
C5_AssistTurnover ==
    Aggregated =>
        \A i \in DOMAIN seasonPlayerStats :
            LET a == seasonPlayerStats[i]
            IN  /\ a.totalTurnovers > 0 =>
                      IsRounded(a.astToRatio, a.totalAssists,
                                a.totalTurnovers, 2)
                /\ a.totalTurnovers = 0 /\ a.totalAssists > 0 =>
                      a.astToRatio = InfinitySign
                /\ a.totalTurnovers = 0 /\ a.totalAssists = 0 =>
                      a.astToRatio = "0.00"

\* C5 witness: one aggregation in which the three cases occur together.
C5_Witness ==
    /\ Aggregated
    /\ \E i, j, k \in DOMAIN seasonPlayerStats :
          /\ seasonPlayerStats[i].astToRatio = InfinitySign
          /\ seasonPlayerStats[i].totalAssists = 5
          /\ seasonPlayerStats[j].astToRatio = "0.00"
          /\ seasonPlayerStats[k].totalTurnovers = 2
          /\ seasonPlayerStats[k].astToRatio = "1.50"

\* The aggregate of the single game 10 points, 4-8 FG, 1-2 3PT, 2-2 FT.
IsExampleGame(a) ==
    /\ a.games = 1 /\ a.totalPoints = 10
    /\ a.fgMade = 4 /\ a.fgAttempted = Num(8)
    /\ a.threeMade = 1 /\ a.threeAttempted = Num(2)
    /\ a.ftMade = 2 /\ a.ftAttempted = Num(2)

\* C6 as stated: on numeric totals TS%, eFG% and FTR follow their formulas
\* and are 0 on a zero denominator, and the example game has TS% 56.8 and
\* eFG% 56.25.
C6_ShootingMetricsAsStated ==
    Aggregated =>
        \A i \in DOMAIN seasonPlayerStats :
            LET a == seasonPlayerStats[i]
                fga == a.fgAttempted.v
                fta == a.ftAttempted.v
            IN  /\ (~a.fgAttempted.nan /\ ~a.ftAttempted.nan) =>
                      /\ IF 2 * (100 * fga + 44 * fta) > 0
                         THEN IsRounded(a.tsPct, 100 * 100 * a.totalPoints,
                                        2 * (100 * fga + 44 * fta), 1)
                         ELSE a.tsPct = "0.0"
                      /\ IF fga > 0
                         THEN /\ IsRounded(a.efgPct,
                                           100 * (10 * a.fgMade + 5 * a.threeMade),
                                           10 * fga, 1)
                              /\ IsRounded(a.ftr, fta, fga, 2)
                         ELSE a.efgPct = "0.0" /\ a.ftr = "0.00"
                /\ IsExampleGame(a) =>
                      /\ a.tsPct = "56.8"
                      /\ IsRounded(a.efgPct, 5625, 100, 1)

\* C6 as amended: TS% is the formula to one decimal when FGA > 0 or FTA > 0
\* and 0.0 otherwise; eFG% and FTR are their formulas when FGA > 0 and 0
\* otherwise; a NaN total compares false and prints NaN where it is divided;
\* the example game has TS% 56.3 and eFG% 56.25, printed 56.3.
C6_ShootingMetrics ==
    Aggregated =>
        \A i \in DOMAIN seasonPlayerStats :
            LET a == seasonPlayerStats[i]
                fga == a.fgAttempted
                fta == a.ftAttempted
            IN  /\ IF JsGt(fga, 0) \/ JsGt(fta, 0)
                   THEN IF fga.nan \/ fta.nan THEN a.tsPct = NaNText
                        ELSE IsRounded(a.tsPct, 100 * 100 * a.totalPoints,
                                       2 * (100 * fga.v + 44 * fta.v), 1)
                   ELSE a.tsPct = "0.0"
                /\ IF JsGt(fga, 0)
                   THEN /\ IsRounded(a.efgPct,
                                     100 * (10 * a.fgMade + 5 * a.threeMade),
                                     10 * fga.v, 1)
                        /\ IF fta.nan THEN a.ftr = NaNText
                           ELSE IsRounded(a.ftr, fta.v, fga.v, 2)
                   ELSE a.efgPct = "0.0" /\ a.ftr = "0.00"
                /\ IsExampleGame(a) =>
                      /\ a.tsPct = "56.3"
                      /\ a.efgPct = "56.3"
                      /\ IsRounded(a.efgPct, 5625, 100, 1)

\* C6 witness: the example game aggregated next to a player without any
\* attempt and a player with free throws only.
C6_Witness ==
    /\ Aggregated
    /\ \E i, j, k \in DOMAIN seasonPlayerStats :
          /\ IsExampleGame(seasonPlayerStats[i])
          /\ seasonPlayerStats[i].tsPct = "56.3"
          /\ seasonPlayerStats[i].ftr = "0.25"
          /\ seasonPlayerStats[j].fgAttempted = Num(0)
          /\ seasonPlayerStats[j].ftAttempted = Num(0)
          /\ seasonPlayerStats[j].tsPct = "0.0"
          /\ seasonPlayerStats[k].fgAttempted = Num(0)
          /\ seasonPlayerStats[k].ftAttempted = Num(3)
          /\ seasonPlayerStats[k].tsPct = "75.8"
          /\ seasonPlayerStats[k].efgPct = "0.0"

(***************************************************************************)
(* Properties of computeTeamSeasonTotals, checked under SpecTeamTotals.    *)
(***************************************************************************)
TeamTotalsComputed == lastOp = "computeTeamSeasonTotals"

\* The sum of a counting column over the Maryland rows of the input.
TeamSum(field) ==
    SumSeq([j \in DOMAIN allSeasonStats |->
              IF allSeasonStats[j].team = "Maryland"
              THEN parseIntOrZero(allSeasonStats[j][field]) ELSE 0])

\* The attempts of a shooting column over the Maryland rows of the input.
TeamAttempted(field) ==
    SumSeq([j \in DOMAIN allSeasonStats |->
              IF allSeasonStats[j].team = "Maryland"
              THEN CellAttempted(allSeasonStats[j][field]) ELSE 0])

\* C7: the team row carries the advanced metrics under the players' rules:
\* its assist/turnover value is assists/turnovers when the team has
\* turnovers, the non-numeric sentinel when it has assists and no turnover,
\* and 0 when it has neither; TS%, eFG% and FTR are 0 when their
\* denominators are 0.
C7_TeamAdvancedMetrics ==
    TeamTotalsComputed =>
        LET t == seasonTeamTotals[1]
            ast == TeamSum("assists")
            tov == TeamSum("turnovers")
            fga == TeamAttempted("field_goals")
            fta == TeamAttempted("free_throws")
        IN  /\ tov > 0 => IsRounded(t.ast_to_ratio, ast, tov, 2)
            /\ tov = 0 /\ ast > 0 => t.ast_to_ratio = InfinitySign
            /\ tov = 0 /\ ast = 0 => t.ast_to_ratio = "0.00"
            /\ fga = 0 => t.efg_pct = "0.0" /\ t.ft_rate = "0.00"
            /\ fga = 0 /\ fta = 0 => t.ts_pct = "0.0"

\* The cell holding Maryland's score in a game, and the opponent's.
SubjectCell(game) ==
    IF game.home_team = "Maryland" THEN game.home_score ELSE game.visiting_score

OpponentCell(game) ==
    IF game.home_team = "Maryland" THEN game.visiting_score ELSE game.home_score

ScoredSum ==
    SumSeq([i \in DOMAIN sortedGames |->
              DigitsValue(SubjectCell(sortedGames[i]), 0)])

AllowedSum ==
    SumSeq([i \in DOMAIN sortedGames |->
              DigitsValue(OpponentCell(sortedGames[i]), 0)])

\* C8: for a non-empty list of Maryland games, off_rating is the sum of
\* Maryland's scores over the games, def_rating the sum of the opponents'
\* scores over the games and net_rating their difference, each printed
\* with one decimal; 60 and 70 scored with 55 and 65 allowed print 65.0,
\* 60.0 and 5.0 on either side.  A score cell that holds no number makes
\* the ratings it enters print NaN.
C8_Ratings ==
    TeamTotalsComputed /\ sortedGames # <<>> =>
        LET t == seasonTeamTotals[1]
            n == Len(sortedGames)
            scoredOk == \A i \in 1..n : IsDigits(SubjectCell(sortedGames[i]))
            allowedOk == \A i \in 1..n : IsDigits(OpponentCell(sortedGames[i]))
        IN  /\ scoredOk => IsRounded(t.off_rating, ScoredSum, n, 1)
            /\ allowedOk => IsRounded(t.def_rating, AllowedSum, n, 1)
            /\ scoredOk /\ allowedOk =>
                  IsRounded(t.net_rating, ScoredSum - AllowedSum, n, 1)
            /\ ~scoredOk => t.off_rating = NaNText /\ t.net_rating = NaNText
            /\ ~allowedOk => t.def_rating = NaNText /\ t.net_rating = NaNText
            /\ ( /\ n = 2
                 /\ SubjectCell(sortedGames[1]) = <<"6", "0">>
                 /\ OpponentCell(sortedGames[1]) = <<"5", "5">>
                 /\ SubjectCell(sortedGames[2]) = <<"7", "0">>
                 /\ OpponentCell(sortedGames[2]) = <<"6", "5">> )
               => /\ t.off_rating = "65.0"
                  /\ t.def_rating = "60.0"
                  /\ t.net_rating = "5.0"

\* C8 witness: Maryland wins 60-55 at home and 70-65 as the visitor, and
\* the ratings are 65.0, 60.0 and 5.0.
C8_Witness ==
    /\ TeamTotalsComputed
    /\ Len(sortedGames) = 2
    /\ sortedGames[1].home_team = "Maryland"
    /\ sortedGames[1].home_score = <<"6", "0">>
    /\ sortedGames[1].visiting_score = <<"5", "5">>
    /\ sortedGames[2].visiting_team = "Maryland"
    /\ sortedGames[2].home_score = <<"6", "5">>
    /\ sortedGames[2].visiting_score = <<"7", "0">>
    /\ seasonTeamTotals[1].off_rating = "65.0"
    /\ seasonTeamTotals[1].def_rating = "60.0"
    /\ seasonTeamTotals[1].net_rating = "5.0"

(***************************************************************************)
(* Properties of the season view, checked under Spec.                      *)
(***************************************************************************)
\* The season's data is on display: a load has completed or the timeline
\* has been moved, and no load is in flight.
SeasonShown ==
    /\ lastOp \in {"seasonLoaded", "updateGameTimeline"}
    /\ pending = EmptyBag

\* The games and player rows the display covers: those of the timeline
\* games up to the selected one, or all of them when there is no timeline.
ShownGames ==
    IF sortedGames = <<>> THEN { allGames[i] : i \in DOMAIN allGames }
    ELSE { sortedGames[i] : i \in 1..(selectedGameIndex + 1) }

ShownRows ==
    IF sortedGames = <<>>
    THEN { allSeasonStats[i] : i \in DOMAIN allSeasonStats }
    ELSE { allSeasonStats[i] : i \in
             { j \in DOMAIN allSeasonStats :
                 \E g \in ShownGames : g.file_id = allSeasonStats[j].file_id } }

ShownTeams ==
    { g.home_team : g \in ShownGames } \cup { g.visiting_team : g \in ShownGames }
    \cup { r.team : r \in ShownRows }

\* C9: when a season is shown, after its load and after every timeline
\* update, seasonTeamTotals holds exactly one row for every team of the
\* games and player rows on display: Maryland's and one per opponent.
C9_OneRowPerTeam ==
    SeasonShown =>
        /\ { seasonTeamTotals[i].team : i \in DOMAIN seasonTeamTotals }
             = ShownTeams
        /\ \A i, j \in DOMAIN seasonTeamTotals :
              seasonTeamTotals[i].team = seasonTeamTotals[j].team => i = j

(***************************************************************************)
(* Properties of formatTime, checked under SpecFormatTime.                 *)
(***************************************************************************)
Formatted == lastOp = "formatTime"

TwoDigits(k) == IF k < 10 THEN "0" \o IntToStr(k) ELSE IntToStr(k)

\* A cell that is a minus sign followed by a positive integer.
IsNegative(cell) ==
    /\ Len(cell) >= 2
    /\ Head(cell) = "-"
    /\ IsDigits(Tail(cell))
    /\ DigitsValue(Tail(cell), 0) > 0

\* A cell without any digit holds no number.
IsUnparseable(cell) == \A i \in DOMAIN cell : ~IsDigit(cell[i])

\* C10: formatTime prints a non-negative integer n of seconds as
\* floor(n / 60), a colon and n mod 60 on two digits, and prints 0:00 for
\* a negative input and for an input that holds no number.
C10_ClockFormat ==
    Formatted =>
        /\ IsDigits(clockArg) =>
              LET n == DigitsValue(clockArg, 0)
              IN  clockText = IntToStr(n \div 60) \o ":" \o TwoDigits(n % 60)
        /\ IsNegative(clockArg) \/ IsUnparseable(clockArg) =>
              clockText = "0:00"

(***************************************************************************)
(* Further properties of aggregateSeasonStats, checked under               *)
(* SpecAggregate.                                                          *)
(***************************************************************************)
\* The totals and the games count of an aggregate.
TotalsOf(a) ==
    <<a.games, a.totalPoints, a.totalRebounds, a.totalAssists, a.totalSteals,
      a.totalBlocks, a.totalTurnovers, a.totalMinutes, a.fgMade, a.fgAttempted,
      a.threeMade, a.threeAttempted, a.ftMade, a.ftAttempted>>

\* The values derived from them.
DerivedOf(a) ==
    <<a.ppg, a.rpg, a.apg, a.spg, a.bpg, a.topg, a.mpg, a.fgPct, a.threePct,
      a.ftPct, a.tsPct, a.efgPct, a.astToRatio, a.ftr, a.gameScore>>

\* text is the season percentage made/attempted with one decimal; without
\* a positive number of attempts it is 0.0.
IsSeasonPct(text, made, attempted) ==
    IF JsGt(attempted, 0) THEN IsRounded(text, 100 * made, attempted.v, 1)
    ELSE text = "0.0"

\* C11: every derived value of an aggregate is computed from its final
\* totals and its games count: a per-game average is total/games, a season
\* percentage is the made total over the attempted total (0.0 without a
\* positive attempted total), and two aggregates with the same totals and
\* games have the same derived values.
C11_DerivedFromTotals ==
    Aggregated =>
        /\ \A i \in DOMAIN seasonPlayerStats :
              LET a == seasonPlayerStats[i]
              IN  /\ IsRounded(a.ppg, a.totalPoints, a.games, 1)
                  /\ IsRounded(a.rpg, a.totalRebounds, a.games, 1)
                  /\ IsRounded(a.apg, a.totalAssists, a.games, 1)
                  /\ IsRounded(a.spg, a.totalSteals, a.games, 1)
                  /\ IsRounded(a.bpg, a.totalBlocks, a.games, 1)
                  /\ IsRounded(a.topg, a.totalTurnovers, a.games, 1)
                  /\ IsRounded(a.mpg, a.totalMinutes, a.games, 1)
                  /\ IsSeasonPct(a.fgPct, a.fgMade, a.fgAttempted)
                  /\ IsSeasonPct(a.threePct, a.threeMade, a.threeAttempted)
                  /\ IsSeasonPct(a.ftPct, a.ftMade, a.ftAttempted)
        /\ \A i, j \in DOMAIN seasonPlayerStats :
              TotalsOf(seasonPlayerStats[i]) = TotalsOf(seasonPlayerStats[j])
                  => DerivedOf(seasonPlayerStats[i])
                       = DerivedOf(seasonPlayerStats[j])

\* C11 witness: a player with the games 2-2 FT and 2-3 FT, whose season
\* FT% is 4/5 = 80.0 and not the mean 83.3 of 100.0 and 66.7, next to a
\* player with one game.
C11_Witness ==
    /\ Aggregated
    /\ \E i, j \in DOMAIN seasonPlayerStats :
          /\ seasonPlayerStats[i].games = 2
          /\ seasonPlayerStats[i].ftMade = 4
          /\ seasonPlayerStats[i].ftAttempted = Num(5)
          /\ seasonPlayerStats[i].ftPct = "80.0"
          /\ seasonPlayerStats[i].ppg = "6.0"
          /\ seasonPlayerStats[j].games = 1

\* Ten times the Game Score numerator of an aggregate with numeric totals.
GameScoreTenths(a) ==
    10 * a.totalPoints + 4 * a.fgMade - 7 * a.fgAttempted.v
    - 4 * (a.ftAttempted.v - a.ftMade) + 5 * a.totalRebounds
    + 10 * a.totalSteals + 7 * a.totalAssists + 7 * a.totalBlocks
    - 10 * a.totalTurnovers

\* C13: every aggregate has games >= 1 and its Game Score is
\* (PTS + 0.4 FGM - 0.7 FGA - 0.4 (FTA - FTM) + 0.5 REB + STL + 0.7 AST
\* + 0.7 BLK - TOV) / games with one decimal; an attempted total that is
\* NaN makes it print NaN.
C13_GameScore ==
    Aggregated =>
        \A i \in DOMAIN seasonPlayerStats :
            LET a == seasonPlayerStats[i]
            IN  /\ a.games >= 1
                /\ IF a.fgAttempted.nan \/ a.ftAttempted.nan
                   THEN a.gameScore = NaNText
                   ELSE IsRounded(a.gameScore, GameScoreTenths(a),
                                  10 * a.games, 1)

\* C13 witness: two games with 9 rebounds in all and Game Score 10.4.
C13_Witness ==
    /\ Aggregated
    /\ \E i \in DOMAIN seasonPlayerStats :
          /\ seasonPlayerStats[i].games = 2
          /\ seasonPlayerStats[i].totalRebounds = 9
          /\ seasonPlayerStats[i].totalPoints = 12
          /\ seasonPlayerStats[i].gameScore = "10.4"

\* C14: after aggregateSeasonStats the aggregates are in non-increasing
\* order of total points and filteredSeasonStats is the same list.
C14_SortedByPoints ==
    Aggregated =>
        /\ \A i \in 1..(Len(seasonPlayerStats) - 1) :
              seasonPlayerStats[i].totalPoints
                  >= seasonPlayerStats[i + 1].totalPoints
        /\ filteredSeasonStats = seasonPlayerStats

\* C14 witness: rows given in increasing order of points come out in
\* decreasing order.
C14_Witness ==
    /\ Aggregated
    /\ Len(allSeasonStats) = 3
    /\ Len(seasonPlayerStats) = 3
    /\ parseIntOrZero(allSeasonStats[1].points)
         < parseIntOrZero(allSeasonStats[2].points)
    /\ parseIntOrZero(allSeasonStats[2].points)
         < parseIntOrZero(allSeasonStats[3].points)
    /\ seasonPlayerStats[1].name = allSeasonStats[3].name
    /\ seasonPlayerStats[1].team = allSeasonStats[3].team
    /\ seasonPlayerStats[1].totalPoints > seasonPlayerStats[2].totalPoints
    /\ seasonPlayerStats[2].totalPoints > seasonPlayerStats[3].totalPoints
    /\ filteredSeasonStats = seasonPlayerStats

(***************************************************************************)
(* Properties of repeated aggregation, checked under SpecTimeline.         *)
(***************************************************************************)
\* The rows of allSeasonStats that belong to the timeline games up to the
\* one at the given index.
RowsThrough(index) ==
    { j \in DOMAIN allSeasonStats :
        \E i \in 1..(index + 1) :
            sortedGames[i].file_id = allSeasonStats[j].file_id }

\* C12: the aggregates a timeline update leaves are those of the rows of
\* that call alone, whatever was aggregated before: their games sum to the
\* number of rows of the call, each aggregate has the games and the points
\* of the rows of the call with its key, and an update to the position the
\* previous update left gives the same aggregates again.
C12_NoCarryOver ==
    [][lastOp' = "updateGameTimeline" =>
         /\ SumSeq([i \in DOMAIN seasonPlayerStats' |->
                      seasonPlayerStats'[i].games])
              = Cardinality(RowsThrough(selectedGameIndex'))
         /\ \A i \in DOMAIN seasonPlayerStats' :
               LET a == seasonPlayerStats'[i]
                   mine == { j \in RowsThrough(selectedGameIndex') :
                               playerKey(allSeasonStats[j]) = playerKey(a) }
               IN  /\ a.games = Cardinality(mine)
                   /\ a.totalPoints =
                        SumSeq([j \in DOMAIN allSeasonStats |->
                                  IF j \in mine
                                  THEN parseIntOrZero(allSeasonStats[j].points)
                                  ELSE 0])
         /\ (lastOp = "updateGameTimeline"
               /\ selectedGameIndex' = selectedGameIndex)
              => seasonPlayerStats' = seasonPlayerStats]_vars

\* C12 witness: the load aggregated the rows of both games of a player and
\* the slider, moved to the first game, leaves the player a single game.
C12_Witness ==
    /\ lastOp = "updateGameTimeline"
    /\ Len(sortedGames) = 2
    /\ selectedGameIndex = 0
    /\ Len(allSeasonStats) = 2
    /\ playerKey(allSeasonStats[1]) = playerKey(allSeasonStats[2])
    /\ allSeasonStats[1].file_id # allSeasonStats[2].file_id
    /\ Len(seasonPlayerStats) = 1
    /\ seasonPlayerStats[1].games = 1


(***************************************************************************)
(* The plays filter of the game view (script.js:549-575).                  *)
(***************************************************************************)
\* Plays of one game at most.
MaxPlays == 3

\* A row of plays.csv, by the columns the filter reads.
Play(id, team, playType, action, player) ==
    [play_id |-> id, team |-> team, play_type |-> playType,
     play_action |-> action, player_name |-> player]

GamePlays ==
    { Play("p1", "Maryland", "SHOT", "MADE", "A"),
      Play("p2", "Maryland", "SHOT", "MISSED", "A"),
      Play("p3", "C", "SHOT", "MADE", "B"),
      Play("p4", "Maryland", "SUBS", "", ""),
      Play("p5", "C", "SHOT", "MADE", "A") }

\* The values the four controls can hold; "" is the "All ..." option.
PlaysFilterSettings ==
    [team : {"", "Maryland", "C"}, playType : {"", "SHOT"},
     action : {"", "MADE"}, player : {"", "A"}]

\* The callback of allPlays.filter (script.js:555-561).
playPasses_TeamOnly(play, controls) ==
    ~(controls.team # "" /\ play.team # controls.team)

playPasses(play, controls) ==
    /\ ~(controls.team # "" /\ play.team # controls.team)
    /\ ~(controls.playType # "" /\ play.play_type # controls.playType)
    /\ ~(controls.action # "" /\ play.play_action # controls.action)
    /\ ~(controls.player # "" /\ play.player_name # controls.player)

\* Array.prototype.filter with that callback.
RECURSIVE filterPlays(_, _)
filterPlays(plays, controls) ==
    IF plays = <<>> THEN <<>>
    ELSE IF playPasses(Head(plays), controls)
         THEN <<Head(plays)>> \o filterPlays(Tail(plays), controls)
         ELSE filterPlays(Tail(plays), controls)

\* The state selectGame leaves (script.js:409, 414): the plays of the game,
\* all of them shown.
InitPlaysFilter ==
    /\ GlobalsLoaded
    /\ NothingAnalysed
    /\ allSeasonStats = <<>>
    /\ sortedGames = <<>>
    /\ clockArg = <<>>
    /\ NoGameLoaded
    /\ allPlays \in SeqsUpTo(GamePlays, MaxPlays)
    /\ filteredPlays = allPlays
    /\ playsFilter = NoPlaysFilter

\* applyPlaysFilter() with the controls holding `controls`.
ApplyPlaysFilter(controls) ==
    /\ playsFilter' = controls
    /\ filteredPlays' = filterPlays(allPlays, controls)
    /\ lastOp' = "applyPlaysFilter"
    /\ UNCHANGED <<seasonVars, allPlays, gameLoadVars, analysisVars>>

\* clearPlaysFilter()
ClearPlaysFilter ==
    /\ playsFilter' = NoPlaysFilter
    /\ filteredPlays' = allPlays
    /\ lastOp' = "clearPlaysFilter"
    /\ UNCHANGED <<seasonVars, allPlays, gameLoadVars, analysisVars>>

NextPlaysFilter ==
    \/ \E controls \in PlaysFilterSettings : ApplyPlaysFilter(controls)
    \/ ClearPlaysFilter

SpecPlaysFilter == InitPlaysFilter /\ [][NextPlaysFilter]_vars

\* The play satisfies every criterion that is not empty.
Matches(play, controls) ==
    /\ controls.team # "" => play.team = controls.team
    /\ controls.playType # "" => play.play_type = controls.playType
    /\ controls.action # "" => play.play_action = controls.action
    /\ controls.player # "" => play.player_name = controls.player

\* The positions of `plays` holding a matching play.
MatchingAt(plays, controls) ==
    { i \in DOMAIN plays : Matches(plays[i], controls) }

\* `shown` lists the matching plays of `plays` in their order: its k-th
\* entry is the play at the k-th matching position.
IsMatchingSubsequence(shown, plays, controls) ==
    /\ Len(shown) = Cardinality(MatchingAt(plays, controls))
    /\ \A i \in MatchingAt(plays, controls) :
           shown[Cardinality({ j \in MatchingAt(plays, controls) : j <= i })]
               = plays[i]

\* C20: after applyPlaysFilter, filteredPlays lists, in the order of
\* allPlays, exactly the plays matching every non-empty criterion; running
\* it again with the same criteria changes nothing; clearPlaysFilter shows
\* all of allPlays again; and no step changes allPlays.
C20_PlaysFilter ==
    [][ /\ allPlays' = allPlays
        /\ lastOp' = "applyPlaysFilter" =>
               IsMatchingSubsequence(filteredPlays', allPlays', playsFilter')
        /\ (lastOp = "applyPlaysFilter" /\ lastOp' = "applyPlaysFilter"
               /\ playsFilter' = playsFilter) => filteredPlays' = filteredPlays
        /\ lastOp' = "clearPlaysFilter" => filteredPlays' = allPlays' ]_vars

\* Two criteria are set and keep the first and the third of three plays.
C20_Witness ==
    /\ lastOp = "applyPlaysFilter"
    /\ playsFilter.team = "Maryland" /\ playsFilter.playType = "SHOT"
    /\ playsFilter.action = "" /\ playsFilter.player = ""
    /\ Len(allPlays) = 3 /\ Len(filteredPlays) = 2
    /\ filteredPlays = <<allPlays[1], allPlays[3]>>
    /\ allPlays[2].team = "C"


(***************************************************************************)
(* The substitution analysis.  Its scripts are not among the sources; the  *)
(* definitions follow the specification (sections 4.1, 4.5, 4.6) and the   *)
(* description of the analysis (unnamed/part_001).                         *)
(*                                                                         *)
(* A narrative is the sequence of its words; the separator ";" is a word   *)
(* of its own.                                                             *)
(***************************************************************************)
\* Plays of one stream at most.
MaxStream == 3

\* "Tracks only Maryland substitutions" (unnamed/part_001:190-192).
SubjectTeam == "Maryland"

NumberWords == {"02", "05", "06", "07", "10", "14", "33"}

DirectionWords == {"OUT", "IN"}

\* A segment matches "<number> <name> OUT" or "<number> <name> IN".
matchesSegment(segment) ==
    /\ Len(segment) >= 3
    /\ segment[1] \in NumberWords
    /\ segment[Len(segment)] \in DirectionWords

entryOf(segment) ==
    [direction |-> segment[Len(segment)],
     number |-> segment[1],
     name |-> SubSeq(segment, 2, Len(segment) - 1)]

\* The entries of the segments that match; the others are dropped.
RECURSIVE matchedEntries(_)
matchedEntries(segments) ==
    IF segments = <<>> THEN <<>>
    ELSE IF matchesSegment(Head(segments))
         THEN <<entryOf(Head(segments))>> \o matchedEntries(Tail(segments))
         ELSE matchedEntries(Tail(segments))

\* parseSubstitutionNarrative(text) -> list[(direction, number, name)]
parseSubstitutionNarrative(text) == matchedEntries(split(text, ";"))

entriesOf(entries, direction) ==
    SelectSeq(entries, LAMBDA e : e.direction = direction)

\* A play-by-play row: Type, team, Narrative, Period, ClockSeconds.
StreamPlay(id, type, team, period, clock, narrative) ==
    [source_id |-> id, file_id |-> "g1", type |-> type, team |-> team,
     period |-> period, clock_seconds |-> clock, narrative |-> narrative]

SubstitutionEvent(play, out, in) ==
    [source_id |-> play.source_id, file_id |-> play.file_id,
     period |-> play.period, clock_seconds |-> play.clock_seconds,
     player_out_number |-> out.number, player_out |-> out.name,
     player_in_number |-> in.number, player_in |-> in.name]

\* The filter of the extractor: a substitution of the tracked team.
qualifies_AnyTeam(play) == play.type = "SUBS"

qualifies(play) == play.type = "SUBS" /\ play.team = SubjectTeam

\* The events paired so far and the entries left over, for the OUT entries
\* `outs` and the IN entries `ins` of one play.
pairEntries_AllWithFirstIn(play, outs, ins) ==
    LET n == IF Len(outs) < Len(ins) THEN Len(outs) ELSE Len(ins)
    IN  [events |-> [i \in 1..n |-> SubstitutionEvent(play, outs[i], ins[1])],
         dropped |-> Len(outs) + Len(ins) - 2 * n]

pairEntries(play, outs, ins) ==
    LET n == IF Len(outs) < Len(ins) THEN Len(outs) ELSE Len(ins)
    IN  [events |-> [i \in 1..n |-> SubstitutionEvent(play, outs[i], ins[i])],
         dropped |-> Len(outs) + Len(ins) - 2 * n]

\* One step of the extractor.
extractPlay(play) ==
    IF ~qualifies(play) THEN [events |-> <<>>, dropped |-> 0]
    ELSE LET entries == parseSubstitutionNarrative(play.narrative)
         IN  pairEntries(play, entriesOf(entries, "OUT"),
                         entriesOf(entries, "IN"))

\* The one pass over a stream.
RECURSIVE extractSubstitutions(_)
extractSubstitutions(plays) ==
    IF plays = <<>> THEN <<>>
    ELSE extractPlay(Head(plays)).events \o extractSubstitutions(Tail(plays))

\* The occurrence key of an event or of a record: (game, period, clock).
occurrenceKey(e) == <<e.file_id, e.period, e.clock_seconds>>

\* Group by occurrence key, in the order the keys are first met.
addToOccurrence(records, e) ==
    IF \E i \in DOMAIN records : occurrenceKey(records[i]) = occurrenceKey(e)
    THEN [i \in DOMAIN records |->
            IF occurrenceKey(records[i]) = occurrenceKey(e)
            THEN [records[i] EXCEPT
                    !.num_players = @ + 1,
                    !.players_out = Append(@, e.player_out),
                    !.players_in = Append(@, e.player_in)]
            ELSE records[i]]
    ELSE Append(records,
                [file_id |-> e.file_id, period |-> e.period,
                 clock_seconds |-> e.clock_seconds, num_players |-> 1,
                 players_out |-> <<e.player_out>>,
                 players_in |-> <<e.player_in>>])

RECURSIVE groupByOccurrence(_, _)
groupByOccurrence(records, events) ==
    IF events = <<>> THEN records
    ELSE groupByOccurrence(addToOccurrence(records, Head(events)),
                           Tail(events))

\* Mass-substitution grouping (section 4.6): an occurrence with N pairings
\* is one "N-player substitution" record, N from 1 on.
massSubstitutionsOf_TwoOrMore(events) ==
    SelectSeq(groupByOccurrence(<<>>, events),
              LAMBDA r : r.num_players >= 2)

massSubstitutionsOf(events) == groupByOccurrence(<<>>, events)

\* The 2-minute window of a clock (section 4.6): 0 for 0-2, ..., 5 for
\* 10-12 minutes remaining.  A window takes its lower boundary; the six
\* windows take every event, so the last one takes 12:00 and the clocks
\* above it (a 20-minute half starts at 20:00).
timeBucket_Unclamped(clock_seconds) == clock_seconds \div 120

timeBucket(clock_seconds) ==
    IF clock_seconds >= 600 THEN 5 ELSE clock_seconds \div 120

addToHistogram(cells, e) ==
    IF \E i \in DOMAIN cells :
           /\ cells[i].period = e.period
           /\ cells[i].bucket = timeBucket(e.clock_seconds)
    THEN [i \in DOMAIN cells |->
            IF /\ cells[i].period = e.period
               /\ cells[i].bucket = timeBucket(e.clock_seconds)
            THEN [cells[i] EXCEPT !.count = @ + 1]
            ELSE cells[i]]
    ELSE Append(cells, [period |-> e.period,
                        bucket |-> timeBucket(e.clock_seconds),
                        count |-> 1])

RECURSIVE timingHistogramOf(_, _)
timingHistogramOf(cells, events) ==
    IF events = <<>> THEN cells
    ELSE timingHistogramOf(addToHistogram(cells, Head(events)), Tail(events))

\* The plays a stream is made of: single and mass substitutions of the
\* tracked team (two of them at the same clock), one with more players OUT
\* than IN, one with a segment lacking its number, a substitution of the
\* opponent, a play of another type, and substitutions at 12:00 and at
\* 19:59 of a 20-minute half.
StreamPlays ==
    { StreamPlay("s1", "SUBS", "Maryland", 1, 600,
                 <<"02", "Kaylene", "Smikle", "OUT", ";",
                   "10", "Mir", "McLean", "IN">>),
      StreamPlay("s2", "SUBS", "Maryland", 2, 120,
                 <<"02", "A", "OUT", ";", "14", "B", "OUT", ";",
                   "06", "C", "IN", ";", "10", "D", "IN">>),
      StreamPlay("s3", "SUBS", "Maryland", 2, 120,
                 <<"33", "E", "OUT", ";", "02", "A", "IN">>),
      StreamPlay("s4", "SUBS", "Maryland", 4, 0,
                 <<"02", "A", "OUT", ";", "14", "B", "OUT", ";",
                   "33", "E", "OUT", ";", "06", "C", "IN", ";",
                   "10", "D", "IN">>),
      StreamPlay("s5", "SUBS", "Maryland", 3, 719,
                 <<"A", "OUT", ";", "10", "D", "IN">>),
      StreamPlay("s6", "SUBS", "C", 1, 600,
                 <<"05", "X", "OUT", ";", "07", "Y", "IN">>),
      StreamPlay("s7", "SHOT", "Maryland", 1, 480,
                 <<"A", "made", "Layup">>),
      StreamPlay("s8", "SUBS", "Maryland", 1, 720,
                 <<"14", "B", "OUT", ";", "06", "C", "IN">>),
      StreamPlay("s9", "SUBS", "Maryland", 2, 1199,
                 <<"06", "C", "OUT", ";", "14", "B", "IN">>) }

InitSubstitutions ==
    /\ GlobalsLoaded
    /\ NoGameSelected
    /\ NothingRead
    /\ allSeasonStats = <<>>
    /\ sortedGames = <<>>
    /\ clockArg = <<>>
    /\ playByPlay \in SeqsUpTo(StreamPlays, MaxStream)

\* The extractor reads the next play of the stream.
ReadPlay ==
    /\ playsRead < Len(playByPlay)
    /\ \E step \in {extractPlay(playByPlay[playsRead + 1])} :
           /\ substitutionEvents' = substitutionEvents \o step.events
           /\ diagnostics' = diagnostics + step.dropped
    /\ playsRead' = playsRead + 1
    /\ lastOp' = "readPlay"
    /\ UNCHANGED <<seasonVars, gameVars, playByPlay, massSubstitutions,
                   timingHistogram, assistEdges, assisterTotals,
                   scorerTotals>>

\* The mass-substitution pass over the events of the whole stream.
GroupMassSubstitutions ==
    /\ playsRead = Len(playByPlay)
    /\ massSubstitutions' = massSubstitutionsOf(substitutionEvents)
    /\ lastOp' = "massSubstitutions"
    /\ UNCHANGED <<seasonVars, gameVars, playByPlay, playsRead,
                   substitutionEvents, diagnostics, timingHistogram,
                   assistEdges, assisterTotals, scorerTotals>>

\* The timing pass over the events of the whole stream.
BuildTimingHistogram ==
    /\ playsRead = Len(playByPlay)
    /\ timingHistogram' = timingHistogramOf(<<>>, substitutionEvents)
    /\ lastOp' = "timingHistogram"
    /\ UNCHANGED <<seasonVars, gameVars, playByPlay, playsRead,
                   substitutionEvents, diagnostics, massSubstitutions,
                   assistEdges, assisterTotals, scorerTotals>>

NextSubstitutions ==
    \/ ReadPlay
    \/ GroupMassSubstitutions
    \/ BuildTimingHistogram

SpecSubstitutions == InitSubstitutions /\ [][NextSubstitutions]_vars


(***************************************************************************)
(* C15 - C18: the substitution events, their grouping and their timing.    *)
(***************************************************************************)
\* The positions of `text` where a segment "<number> <name> <direction>"
\* ends.
NamedAt(text, direction) ==
    { i \in DOMAIN text :
        /\ text[i] = direction
        /\ i = Len(text) \/ text[i + 1] = ";"
        /\ \E j \in 1..(i - 2) :
               /\ j = 1 \/ text[j - 1] = ";"
               /\ text[j] \in NumberWords
               /\ \A k \in j..i : text[k] # ";" }

\* The first word of the segment that ends at position i.
SegmentStart(text, i) ==
    CHOOSE j \in 1..i :
        /\ j = 1 \/ text[j - 1] = ";"
        /\ \A k \in j..i : text[k] # ";"

\* The number and the name of the player named by that segment.
PlayerNamedAt(text, i) ==
    <<text[SegmentStart(text, i)],
      SubSeq(text, SegmentStart(text, i) + 1, i - 1)>>

\* The k-th smallest member of a set of positions.
Kth(positions, k) ==
    CHOOSE i \in positions : Cardinality({ j \in positions : j <= i }) = k

IsSubjectSubstitution(play) == play.type = "SUBS" /\ play.team = SubjectTeam

\* C15: reading a qualifying play whose narrative names m players OUT and
\* n players IN appends exactly min(m, n) events, the i-th pairing the i-th
\* OUT with the i-th IN, all with the occurrence key of the play; the
\* |m - n| entries left over are added to the diagnostics and the pass
\* goes on.
C15_PositionalPairing ==
    [][ (lastOp' = "readPlay" /\ IsSubjectSubstitution(playByPlay[playsRead']))
        => LET play == playByPlay[playsRead']
               outs == NamedAt(play.narrative, "OUT")
               ins == NamedAt(play.narrative, "IN")
               m == Cardinality(outs)
               n == Cardinality(ins)
               pairs == IF m < n THEN m ELSE n
               before == Len(substitutionEvents)
           IN  /\ Len(substitutionEvents') = before + pairs
               /\ SubSeq(substitutionEvents', 1, before) = substitutionEvents
               /\ \A i \in 1..pairs :
                      LET e == substitutionEvents'[before + i]
                      IN  /\ <<e.player_out_number, e.player_out>>
                                = PlayerNamedAt(play.narrative, Kth(outs, i))
                          /\ <<e.player_in_number, e.player_in>>
                                = PlayerNamedAt(play.narrative, Kth(ins, i))
                          /\ occurrenceKey(e)
                                = <<play.file_id, play.period,
                                    play.clock_seconds>>
               /\ diagnostics' = diagnostics + Abs(m - n)
               /\ playsRead' = playsRead + 1 ]_vars

\* "02 A OUT; 14 B OUT; 06 C IN; 10 D IN" has given (A out, C in) and
\* (B out, D in) with one key, and then 3 OUT with 2 IN has given two more
\* events and one diagnostic.
C15_Witness ==
    /\ lastOp = "readPlay"
    /\ playsRead = 2
    /\ playByPlay[1].narrative
         = <<"02", "A", "OUT", ";", "14", "B", "OUT", ";",
             "06", "C", "IN", ";", "10", "D", "IN">>
    /\ Cardinality(NamedAt(playByPlay[2].narrative, "OUT")) = 3
    /\ Cardinality(NamedAt(playByPlay[2].narrative, "IN")) = 2
    /\ Len(substitutionEvents) = 4
    /\ substitutionEvents[1].player_out = <<"A">>
    /\ substitutionEvents[1].player_in = <<"C">>
    /\ substitutionEvents[2].player_out = <<"B">>
    /\ substitutionEvents[2].player_in = <<"D">>
    /\ occurrenceKey(substitutionEvents[1]) = occurrenceKey(substitutionEvents[2])
    /\ diagnostics = 1

\* The plays read so far.
PlaysRead == SubSeq(playByPlay, 1, playsRead)

WithoutOpponents(plays) == SelectSeq(plays, LAMBDA q : q.team = SubjectTeam)

\* C16: every event comes from a substitution play of the subject team;
\* plays without any such play give no event; and the events are those of
\* the same plays with the opponent's plays taken out.
C16_OnlySubjectSubstitutions ==
    /\ \A i \in DOMAIN substitutionEvents :
           \E j \in 1..playsRead :
               /\ playByPlay[j].source_id = substitutionEvents[i].source_id
               /\ playByPlay[j].type = "SUBS"
               /\ playByPlay[j].team = SubjectTeam
    /\ (\A j \in 1..playsRead : ~IsSubjectSubstitution(playByPlay[j]))
           => substitutionEvents = <<>>
    /\ substitutionEvents = extractSubstitutions(WithoutOpponents(PlaysRead))

\* A substitution of the tracked team between two of the opponent's.
C16_Witness ==
    /\ playsRead = 3
    /\ playByPlay[1].type = "SUBS" /\ playByPlay[1].team = "C"
    /\ IsSubjectSubstitution(playByPlay[2])
    /\ playByPlay[3].type = "SUBS" /\ playByPlay[3].team = "C"
    /\ Len(substitutionEvents) = 1
    /\ substitutionEvents[1].source_id = playByPlay[2].source_id

Grouped == lastOp = "massSubstitutions"

OccurrenceKeys ==
    { occurrenceKey(substitutionEvents[i]) : i \in DOMAIN substitutionEvents }

EventsAt(key) ==
    { i \in DOMAIN substitutionEvents :
        occurrenceKey(substitutionEvents[i]) = key }

RecordsAt(key) ==
    { j \in DOMAIN massSubstitutions :
        occurrenceKey(massSubstitutions[j]) = key }

PlayerCounts == [j \in DOMAIN massSubstitutions |->
                    massSubstitutions[j].num_players]

\* C17: the records partition the events by occurrence key.  Every
\* occurrence of N pairings has exactly one record, an N-player one naming
\* its players in the order of the events; every record is of an
\* occurrence; the player counts of the records add up to the number of
\* events.
C17_EveryOccurrenceReported ==
    Grouped =>
        /\ \A key \in OccurrenceKeys :
               /\ Cardinality(RecordsAt(key)) = 1
               /\ \A j \in RecordsAt(key) :
                    /\ massSubstitutions[j].num_players
                          = Cardinality(EventsAt(key))
                    /\ \A k \in 1..Cardinality(EventsAt(key)) :
                         /\ massSubstitutions[j].players_out[k]
                              = substitutionEvents[Kth(EventsAt(key), k)].player_out
                         /\ massSubstitutions[j].players_in[k]
                              = substitutionEvents[Kth(EventsAt(key), k)].player_in
        /\ \A j \in DOMAIN massSubstitutions :
               occurrenceKey(massSubstitutions[j]) \in OccurrenceKeys
        /\ SumSeq(PlayerCounts) = Len(substitutionEvents)

\* A single substitution and three pairings at one clock: a 1-player and a
\* 3-player record for four events.
C17_Witness ==
    /\ Grouped
    /\ Len(substitutionEvents) = 4
    /\ Cardinality(OccurrenceKeys) = 2
    /\ Len(massSubstitutions) = 2
    /\ \E j \in DOMAIN massSubstitutions :
           massSubstitutions[j].num_players = 1
    /\ \E j \in DOMAIN massSubstitutions :
           massSubstitutions[j].num_players = 3

Bucketed == lastOp = "timingHistogram"

\* Bucket b is the window from 2b to 2b + 2 minutes remaining, its lower
\* boundary included; the last window has no window above it and takes
\* the clocks from 12:00 on as well.
SixBuckets == 0..5

InWindow(clock_seconds, b) ==
    /\ 120 * b <= clock_seconds
    /\ b < 5 => clock_seconds < 120 * (b + 1)

CellsOf(e) ==
    { j \in DOMAIN timingHistogram :
        /\ timingHistogram[j].period = e.period
        /\ timingHistogram[j].bucket \in SixBuckets
        /\ InWindow(e.clock_seconds, timingHistogram[j].bucket) }

CellCounts == [j \in DOMAIN timingHistogram |-> timingHistogram[j].count]

\* points of the shot.
ScoringPlay(id, scorer, assister, points) ==
    [source_id |-> id, scorer |-> scorer, assister |-> assister,
     points |-> points]

ScoringPlays ==
    { ScoringPlay("a1", "A", "B", 2), ScoringPlay("a2", "A", "B", 3),
      ScoringPlay("a3", "B", "A", 2), ScoringPlay("a4", "C", "B", 3),
      ScoringPlay("a5", "C", "A", 2), ScoringPlay("a6", "A", "", 2) }

\* Accumulate the edge assister -> scorer of one play.
addAssist(edges, play) ==
    IF play.assister = "" THEN edges
    ELSE IF \E i \in DOMAIN edges :
                edges[i].assister = play.assister
                    /\ edges[i].scorer = play.scorer
    THEN [i \in DOMAIN edges |->
            IF edges[i].assister = play.assister
                   /\ edges[i].scorer = play.scorer
            THEN [edges[i] EXCEPT
                    !.assists = @ + 1,
                    !.total_points = @ + play.points,
                    !.threes = @ + (IF play.points = 3 THEN 1 ELSE 0),
                    !.twos = @ + (IF play.points = 2 THEN 1 ELSE 0)]
            ELSE edges[i]]
    ELSE Append(edges,
                [assister |-> play.assister, scorer |-> play.scorer,
                 assists |-> 1, total_points |-> play.points,
                 threes |-> IF play.points = 3 THEN 1 ELSE 0,
                 twos |-> IF play.points = 2 THEN 1 ELSE 0])

\* Per-assister totals: the sum over the outgoing edges and the number of
\* distinct scorers.
addToAssister_CountsEdges(totals, edge) ==
    IF \E i \in DOMAIN totals : totals[i].assister = edge.assister
    THEN [i \in DOMAIN totals |->
            IF totals[i].assister = edge.assister
            THEN [totals[i] EXCEPT
                    !.total_assists = @ + 1,
                    !.points_created = @ + edge.total_points,
                    !.unique_teammates = @ + 1]
            ELSE totals[i]]
    ELSE Append(totals,
                [assister |-> edge.assister, total_assists |-> 1,
                 points_created |-> edge.total_points,
                 unique_teammates |-> 1])

addToAssister(totals, edge) ==
    IF \E i \in DOMAIN totals : totals[i].assister = edge.assister
    THEN [i \in DOMAIN totals |->
            IF totals[i].assister = edge.assister
            THEN [totals[i] EXCEPT
                    !.total_assists = @ + edge.assists,
                    !.points_created = @ + edge.total_points,
                    !.unique_teammates = @ + 1]
            ELSE totals[i]]
    ELSE Append(totals,
                [assister |-> edge.assister, total_assists |-> edge.assists,
                 points_created |-> edge.total_points,
                 unique_teammates |-> 1])

RECURSIVE assisterTotalsOf(_, _)
assisterTotalsOf(totals, edges) ==
    IF edges = <<>> THEN totals
    ELSE assisterTotalsOf(addToAssister(totals, Head(edges)), Tail(edges))

\* Per-scorer totals: the sum over the incoming edges and the number of
\* distinct assisters.
addToScorer(totals, edge) ==
    IF \E i \in DOMAIN totals : totals[i].scorer = edge.scorer
    THEN [i \in DOMAIN totals |->
            IF totals[i].scorer = edge.scorer
            THEN [totals[i] EXCEPT
                    !.assists_received = @ + edge.assists,
                    !.points_from_assists = @ + edge.total_points,
                    !.unique_assisters = @ + 1]
            ELSE totals[i]]
    ELSE Append(totals,
                [scorer |-> edge.scorer, assists_received |-> edge.assists,
                 points_from_assists |-> edge.total_points,
                 unique_assisters |-> 1])

RECURSIVE scorerTotalsOf(_, _)
scorerTotalsOf(totals, edges) ==
    IF edges = <<>> THEN totals
    ELSE scorerTotalsOf(addToScorer(totals, Head(edges)), Tail(edges))

InitAssists ==
    /\ GlobalsLoaded
    /\ NoGameSelected
    /\ NothingRead
    /\ allSeasonStats = <<>>
    /\ sortedGames = <<>>
    /\ clockArg = <<>>
    /\ playByPlay \in SeqsUpTo(ScoringPlays, MaxStream)

\* The builder reads the next scoring play.
ReadScoringPlay ==
    /\ playsRead < Len(playByPlay)
    /\ assistEdges' = addAssist(assistEdges, playByPlay[playsRead + 1])
    /\ playsRead' = playsRead + 1
    /\ lastOp' = "readScoringPlay"
    /\ UNCHANGED <<seasonVars, gameVars, playByPlay, substitutionEvents,
                   diagnostics, massSubstitutions, timingHistogram,
                   assisterTotals, scorerTotals>>

\* The two rollups, derived from the edges.
BuildAssistRollups ==
    /\ playsRead = Len(playByPlay)
    /\ assisterTotals' = assisterTotalsOf(<<>>, assistEdges)
    /\ scorerTotals' = scorerTotalsOf(<<>>, assistEdges)
    /\ lastOp' = "assistRollups"
    /\ UNCHANGED <<seasonVars, gameVars, playByPlay, playsRead,
                   substitutionEvents, diagnostics, massSubstitutions,
                   timingHistogram, assistEdges>>

NextAssists ==
    \/ ReadScoringPlay
    \/ BuildAssistRollups

SpecAssists == InitAssists /\ [][NextAssists]_vars

RolledUp == lastOp = "assistRollups"

Assisters == { assistEdges[i].assister : i \in DOMAIN assistEdges }

Scorers == { assistEdges[i].scorer : i \in DOMAIN assistEdges }

\* The sum of a column over the edges leaving an assister, or reaching a
\* scorer.
OutgoingAssists(a) ==
    SumSeq([i \in DOMAIN assistEdges |->
              IF assistEdges[i].assister = a THEN assistEdges[i].assists
              ELSE 0])

OutgoingPoints(a) ==
    SumSeq([i \in DOMAIN assistEdges |->
              IF assistEdges[i].assister = a
              THEN assistEdges[i].total_points ELSE 0])

IncomingAssists(p) ==
    SumSeq([i \in DOMAIN assistEdges |->
              IF assistEdges[i].scorer = p THEN assistEdges[i].assists
              ELSE 0])

IncomingPoints(p) ==
    SumSeq([i \in DOMAIN assistEdges |->
              IF assistEdges[i].scorer = p
              THEN assistEdges[i].total_points ELSE 0])

AssistedPlays ==
    Cardinality({ j \in DOMAIN playByPlay : playByPlay[j].assister # "" })

\* C19: every assister has one row whose totals are the sums over the
\* outgoing edges, every scorer one row whose totals are the sums over the
\* incoming edges, and the edge counts, the per-assister totals and the
\* per-scorer totals all add up to the number of assisted scoring plays.
C19_AssistRollups ==
    RolledUp =>
        /\ \A a \in Assisters :
               /\ Cardinality({ i \in DOMAIN assisterTotals :
                                  assisterTotals[i].assister = a }) = 1
               /\ \A i \in DOMAIN assisterTotals :
                      assisterTotals[i].assister = a =>
                          /\ assisterTotals[i].total_assists
                                = OutgoingAssists(a)
                          /\ assisterTotals[i].points_created
                                = OutgoingPoints(a)
        /\ \A p \in Scorers :
               /\ Cardinality({ i \in DOMAIN scorerTotals :
                                  scorerTotals[i].scorer = p }) = 1
               /\ \A i \in DOMAIN scorerTotals :
                      scorerTotals[i].scorer = p =>
                          /\ scorerTotals[i].assists_received
                                = IncomingAssists(p)
                          /\ scorerTotals[i].points_from_assists
                                = IncomingPoints(p)
        /\ \A i \in DOMAIN assisterTotals :
               assisterTotals[i].assister \in Assisters
        /\ \A i \in DOMAIN scorerTotals : scorerTotals[i].scorer \in Scorers
        /\ SumSeq([i \in DOMAIN assistEdges |-> assistEdges[i].assists])
             = AssistedPlays
        /\ SumSeq([i \in DOMAIN assisterTotals |->
                     assisterTotals[i].total_assists]) = AssistedPlays
        /\ SumSeq([i \in DOMAIN scorerTotals |->
                     scorerTotals[i].assists_received]) = AssistedPlays

\* B assisted A twice, for 5 points, and C once: B's row holds 3 assists
\* over two edges.
C19_Witness ==
    /\ RolledUp
    /\ Len(playByPlay) = 3
    /\ Len(assistEdges) = 2
    /\ \E e \in DOMAIN assistEdges :
           /\ assistEdges[e].assister = "B" /\ assistEdges[e].scorer = "A"
           /\ assistEdges[e].assists = 2 /\ assistEdges[e].total_points = 5
    /\ \E i \in DOMAIN assisterTotals :
           /\ assisterTotals[i].assister = "B"
           /\ assisterTotals[i].total_assists = 3
           /\ assisterTotals[i].unique_teammates = 2
    /\ Len(scorerTotals) = 2


(***************************************************************************)
(* selectGame (script.js:396-428), split at its await like selectSeason.   *)
(***************************************************************************)
\* A row of plays.csv with its game.
PlayRow(fileId, play) ==
    [file_id |-> fileId, play_id |-> play.play_id, team |-> play.team,
     play_type |-> play.play_type, play_action |-> play.play_action,
     player_name |-> play.player_name]

\* plays.csv, team_totals.csv and period_scores.csv of the season with
\* files: rows of the games g1 and g2.
SeasonGameFiles ==
    [plays |->
        <<PlayRow("g1", Play("p1", "Maryland", "SHOT", "MADE", "A")),
          PlayRow("g2", Play("p3", "C", "SHOT", "MADE", "B")),
          PlayRow("g1", Play("p4", "Maryland", "SUBS", "", ""))>>,
     teamTotals |->
        <<[file_id |-> "g1", team |-> "Maryland"],
          [file_id |-> "g1", team |-> "B-C"],
          [file_id |-> "g2", team |-> "Maryland"]>>,
     periodScores |->
        <<[file_id |-> "g1", period |-> "1"],
          [file_id |-> "g2", period |-> "1"]>>]

\* What the four loadCSV calls of selectGame return for a season.
loadGameCSV(season) ==
    IF season = DataSeason
    THEN [plays |-> gameFiles.plays, stats |-> files.stats,
          teamTotals |-> gameFiles.teamTotals,
          periodScores |-> gameFiles.periodScores]
    ELSE [plays |-> <<>>, stats |-> <<>>, teamTotals |-> <<>>,
          periodScores |-> <<>>]

\* rows.filter(r => r.file_id === gameId)
rowsOfGame(rows, gameId) == SelectSeq(rows, LAMBDA r : r.file_id = gameId)

\* The page after it has loaded, the server holding the per-game files.
InitSelectGame ==
    /\ NothingAnalysed
    /\ currentSeason = NoSeason
    /\ files \in SeasonFiles
    /\ pending = EmptyBag
    /\ allGames = <<>>
    /\ allSeasonStats = <<>>
    /\ sortedGames = <<>>
    /\ selectedGameIndex = -1
    /\ seasonPlayerStats = <<>>
    /\ filteredSeasonStats = <<>>
    /\ seasonTeamTotals = <<>>
    /\ seasonFilter = clearedFilter
    /\ clockArg = <<>>
    /\ clockText = ""
    /\ lastOp = "load"
    /\ allPlays = <<>>
    /\ filteredPlays = <<>>
    /\ playsFilter = NoPlaysFilter
    /\ currentGameId = NoGame
    /\ pendingGames = EmptyBag
    /\ gameFiles = SeasonGameFiles
    /\ allStats = <<>>
    /\ filteredStats = <<>>
    /\ statsFilter = clearedStatsFilter
    /\ allTeamTotals = <<>>
    /\ allPeriodScores = <<>>

\* selectGame(gameId) up to its await: a click on the card of a game of
\* allGames; the four fetches are for the season current at the call.
SelectGame(gameId) ==
    /\ \E i \in DOMAIN allGames : allGames[i].file_id = gameId
    /\ BagCardinality(pendingGames) < MaxLoads
    /\ currentGameId' = gameId
    /\ pendingGames' =
           pendingGames
               (+) SetToBag({[gameId |-> gameId, season |-> currentSeason]})
    /\ lastOp' = "selectGame"
    /\ UNCHANGED <<seasonVars, analysisVars, allPlays, filteredPlays,
                   playsFilter, gameFiles, allStats, filteredStats,
                   statsFilter, allTeamTotals, allPeriodScores>>

\* selectGame from its await on: the four loads have settled, the rows of
\* the game are kept and setupFilters rebuilds the four controls.
GameLoaded(load) ==
    /\ BagIn(load, pendingGames)
    /\ pendingGames' = pendingGames (-) SetToBag({load})
    /\ \E loaded \in {loadGameCSV(load.season)} :
          /\ allPlays' = rowsOfGame(loaded.plays, load.gameId)
          /\ allStats' = rowsOfGame(loaded.stats, load.gameId)
          /\ allTeamTotals' = rowsOfGame(loaded.teamTotals, load.gameId)
          /\ allPeriodScores' = rowsOfGame(loaded.periodScores, load.gameId)
    /\ filteredPlays' = allPlays'
    /\ filteredStats' = allStats'
    /\ playsFilter' = NoPlaysFilter
    /\ lastOp' = "gameLoaded"
    /\ UNCHANGED <<seasonVars, analysisVars, currentGameId, gameFiles,
                   statsFilter>>

\* Control values a user applies to the box score: at least 8 points and
\* 4 rebounds, the minimum of assists left blank.
StatsFilterSettings ==
    { [minPoints |-> <<"8">>, minRebounds |-> <<"4">>, minAssists |-> <<>>] }

\* allStats.filter(stat => points >= minPoints && rebounds >= minRebounds
\*                         && assists >= minAssists)
statsFilterOf(stats, controls) ==
    SelectSeq(stats,
              LAMBDA stat :
                  /\ parseIntOrZero(stat.points)
                        >= parseIntOrZero(controls.minPoints)
                  /\ parseIntOrZero(stat.rebounds)
                        >= parseIntOrZero(controls.minRebounds)
                  /\ parseIntOrZero(stat.assists)
                        >= parseIntOrZero(controls.minAssists))

\* The controls are set to the given values and applyStatsFilter runs.
ApplyStatsFilter(controls) ==
    /\ statsFilter' = controls
    /\ filteredStats' = statsFilterOf(allStats, controls)
    /\ lastOp' = "applyStatsFilter"
    /\ UNCHANGED <<seasonVars, analysisVars, allPlays, filteredPlays,
                   playsFilter, currentGameId, pendingGames, gameFiles,
                   allStats, allTeamTotals, allPeriodScores>>

\* clearStatsFilter()
ClearStatsFilter ==
    /\ statsFilter' = clearedStatsFilter
    /\ filteredStats' = allStats
    /\ lastOp' = "clearStatsFilter"
    /\ UNCHANGED <<seasonVars, analysisVars, allPlays, filteredPlays,
                   playsFilter, currentGameId, pendingGames, gameFiles,
                   allStats, allTeamTotals, allPeriodScores>>

NextSelectGame ==
    \/ SelectSeason(DataSeason)
    \/ SeasonLoaded(DataSeason)
    \/ \E gameId \in GameIds : SelectGame(gameId)
    \/ \E load \in BagToSet(pendingGames) : GameLoaded(load)
    \/ \E controls \in StatsFilterSettings : ApplyStatsFilter(controls)
    \/ ClearStatsFilter

SpecSelectGame == InitSelectGame /\ [][NextSelectGame]_vars

(***************************************************************************)
(* C21 - C30: the season view and the game view.                           *)
(***************************************************************************)
Filtered ==
    lastOp \in {"applySeasonStatsFilter", "clearSeasonStatsFilter"}

\* C21: applySeasonStatsFilter and clearSeasonStatsFilter leave
\* seasonPlayerStats as it is; they replace filteredSeasonStats only.
C21_AggregatesReadOnly ==
    [][ lastOp' \in {"applySeasonStatsFilter", "clearSeasonStatsFilter"}
        => seasonPlayerStats' = seasonPlayerStats ]_vars

\* A filter has hidden one of two aggregates.
C21_Witness ==
    /\ Filtered
    /\ Len(seasonPlayerStats) = 2
    /\ Len(filteredSeasonStats) = 1


\* The server holds no file of the season: every fetch fails.
SeasonAbsent(season) == season # DataSeason

\* The step completes the load of the season.
LoadCompletes(season) == CopiesIn(season, pending') < CopiesIn(season, pending)

\* C22: the load of a season whose files are absent does not end as the
\* load of an empty season does, with empty lists aggregated and shown.
C22_AbsentSeasonReported ==
    [][ \A season \in Seasons :
          (LoadCompletes(season) /\ SeasonAbsent(season))
          => ~( /\ lastOp' = "seasonLoaded"
                /\ allGames' = <<>>
                /\ allSeasonStats' = <<>>
                /\ seasonPlayerStats' = <<>>
                /\ filteredSeasonStats' = <<>> ) ]_vars


\* C23: selectedGameIndex is -1 or an index of sortedGames (0-based).
C23_SelectedGameIndexValid ==
    \/ selectedGameIndex = -1
    \/ selectedGameIndex >= 0 /\ selectedGameIndex < Len(sortedGames)

\* C24: once no load is pending, the loaded rows are those of the files of
\* currentSeason, the season selected last.
C24_LastSeasonLoaded ==
    (pending = EmptyBag /\ currentSeason # NoSeason)
    => /\ allGames = loadCSV(currentSeason).games
       /\ allSeasonStats = loadCSV(currentSeason).stats


AllRowsOfGame(rows, gameId) == \A i \in DOMAIN rows : rows[i].file_id = gameId

\* C25: once the last of the pending selectGame calls has completed, every
\* row of the game view is a row of currentGameId, the game selected last.
C25_LastGameLoaded ==
    (pendingGames = EmptyBag /\ lastOp = "gameLoaded")
    => /\ AllRowsOfGame(allPlays, currentGameId)
       /\ AllRowsOfGame(allStats, currentGameId)
       /\ AllRowsOfGame(allTeamTotals, currentGameId)
       /\ AllRowsOfGame(allPeriodScores, currentGameId)
       /\ AllRowsOfGame(filteredPlays, currentGameId)
       /\ AllRowsOfGame(filteredStats, currentGameId)


\* An operation that ends with applySeasonStatsFilter has completed.
SeasonStatsShown ==
    lastOp \in {"seasonLoaded", "updateGameTimeline",
                "applySeasonStatsFilter", "clearSeasonStatsFilter"}

\* The value of a minimum control: its number, 0 when it holds none.
MinimumOf(cell) == parseIntOrZero(cell)

\* The aggregate is at least the minimums and of the team set, if any.
Keeps(a, controls) ==
    /\ a.games >= MinimumOf(controls.minGames)
    /\ a.totalPoints >= MinimumOf(controls.minPoints)
    /\ a.totalRebounds >= MinimumOf(controls.minRebounds)
    /\ a.totalAssists >= MinimumOf(controls.minAssists)
    /\ controls.team # "" => a.team = controls.team

KeptAt ==
    { i \in DOMAIN seasonPlayerStats :
        Keeps(seasonPlayerStats[i], seasonFilter) }

\* C26: after a completed load, slider move, filter or clear,
\* filteredSeasonStats lists, in the order of seasonPlayerStats, exactly
\* the current aggregates the current controls keep.
C26_FilteredIsCurrentSubsequence ==
    SeasonStatsShown =>
        /\ Len(filteredSeasonStats) = Cardinality(KeptAt)
        /\ \A i \in KeptAt :
               filteredSeasonStats[Cardinality({ j \in KeptAt : j <= i })]
                   = seasonPlayerStats[i]

\* A slider move under a minimum of 10 points keeps one of two aggregates.
C26_Witness ==
    /\ lastOp = "updateGameTimeline"
    /\ seasonFilter.minPoints = <<"1", "0">>
    /\ Len(seasonPlayerStats) = 2
    /\ Len(filteredSeasonStats) = 1
    /\ filteredSeasonStats[1] = seasonPlayerStats[1]
    /\ seasonPlayerStats[2].totalPoints < 10


\* The sum of a counting column over the rows at the given positions.
ColumnSum(positions, column(_)) ==
    SumSeq([j \in DOMAIN allSeasonStats |->
              IF j \in positions THEN parseIntOrZero(column(allSeasonStats[j]))
              ELSE 0])

ReboundsCell(row) == row.rebounds

AssistsCell(row) == row.assists

\* C27: a slider move to game number k leaves the aggregates of exactly the
\* rows of the first k timeline games and a team row of k games, whatever
\* the position before; a move from k to k + 1 lowers no aggregate's games.
C27_TimelineDependsOnPosition ==
    [][ lastOp' = "updateGameTimeline" =>
        LET k == selectedGameIndex' + 1
            rows == RowsThrough(selectedGameIndex')
        IN  /\ { playerKey(seasonPlayerStats'[i]) :
                   i \in DOMAIN seasonPlayerStats' }
                 = { playerKey(allSeasonStats[j]) : j \in rows }
            /\ \A i \in DOMAIN seasonPlayerStats' :
                   LET a == seasonPlayerStats'[i]
                       mine == { j \in rows :
                                   playerKey(allSeasonStats[j]) = playerKey(a) }
                   IN  /\ a.games = Cardinality(mine)
                       /\ a.totalRebounds = ColumnSum(mine, ReboundsCell)
                       /\ a.totalAssists = ColumnSum(mine, AssistsCell)
            /\ Len(seasonTeamTotals') = 1
            /\ seasonTeamTotals'[1].games = k
            /\ selectedGameIndex' = selectedGameIndex + 1
                 => \A i \in DOMAIN seasonPlayerStats :
                      \E j \in DOMAIN seasonPlayerStats' :
                        /\ playerKey(seasonPlayerStats'[j])
                             = playerKey(seasonPlayerStats[i])
                        /\ seasonPlayerStats'[j].games
                             >= seasonPlayerStats[i].games ]_vars

\* The slider stands on the second of two games: the player has the rows
\* of both and the team row counts two games.
C27_Witness ==
    /\ lastOp = "updateGameTimeline"
    /\ Len(sortedGames) = 2
    /\ selectedGameIndex = 1
    /\ Len(allSeasonStats) = 2
    /\ allSeasonStats[1].file_id # allSeasonStats[2].file_id
    /\ Len(seasonPlayerStats) = 1
    /\ seasonPlayerStats[1].games = 2
    /\ seasonTeamTotals[1].games = 2


TimelineUpdated == lastOp = "updateGameTimeline"

\* C28: after a slider move to game number k the record shown under the
\* slider is the wins and losses of the one Maryland row of
\* seasonTeamTotals, wins + losses = games = k and win_pct is
\* wins / games * 100.
C28_RecordMatchesTeamRow ==
    TimelineUpdated =>
        LET shown == timelineRecord(sortedGames, selectedGameIndex)
            t == seasonTeamTotals[1]
        IN  /\ Len(seasonTeamTotals) = 1
            /\ t.team = "Maryland"
            /\ shown.wins = t.wins
            /\ shown.losses = t.losses
            /\ t.wins + t.losses = t.games
            /\ t.games = selectedGameIndex + 1
            /\ IsRounded(toFixedDouble(t.win_pct, 2), 100 * t.wins, t.games, 2)

\* A win followed by a loss: 1-1 under the slider and in the row, 50 %.
C28_Witness ==
    /\ TimelineUpdated
    /\ selectedGameIndex = 1
    /\ timelineRecord(sortedGames, selectedGameIndex)
         = [wins |-> 1, losses |-> 1]
    /\ seasonTeamTotals[1].wins = 1
    /\ seasonTeamTotals[1].losses = 1
    /\ toFixedDouble(seasonTeamTotals[1].win_pct, 1) = "50.0"


\* The subject team's score is strictly greater than the opponent's, both
\* read from the cells of the game.
SubjectOutscores(game) ==
    /\ IsDigits(SubjectCell(game))
    /\ IsDigits(OpponentCell(game))
    /\ DigitsValue(SubjectCell(game), 0) > DigitsValue(OpponentCell(game), 0)

GamesWon == { i \in DOMAIN sortedGames : SubjectOutscores(sortedGames[i]) }

\* C29: a game is a win exactly when the subject team's score (the home
\* score when home_team is 'Maryland', the visiting score otherwise) is
\* strictly greater than the opponent's; every other game, a tie or one
\* with an unparseable score included, is a loss, so every game is counted
\* once, in the team row and in the record of the timeline display alike.
C29_WinIffStrictlyGreater ==
    TeamTotalsComputed /\ sortedGames # <<>> =>
        LET t == seasonTeamTotals[1]
            n == Len(sortedGames)
            shown == timelineRecord(sortedGames, n - 1)
        IN  /\ t.wins = Cardinality(GamesWon)
            /\ t.losses = n - Cardinality(GamesWon)
            /\ t.wins + t.losses = t.games
            /\ t.games = n
            /\ shown.wins = Cardinality(GamesWon)
            /\ shown.losses = n - Cardinality(GamesWon)

\* A tie at home and a win on the road: one loss and one win.
C29_Witness ==
    /\ TeamTotalsComputed
    /\ Len(sortedGames) = 2
    /\ sortedGames[1].home_team = "Maryland"
    /\ sortedGames[1].home_score = sortedGames[1].visiting_score
    /\ sortedGames[1].home_score = <<"6", "0">>
    /\ sortedGames[2].visiting_team = "Maryland"
    /\ sortedGames[2].home_score = <<"5", "5">>
    /\ sortedGames[2].visiting_score = <<"6", "0">>
    /\ seasonTeamTotals[1].wins = 1
    /\ seasonTeamTotals[1].losses = 1


\* selectSeason has run to its end: setupGameTimeline has set the timeline.
TimelineSetUp == lastOp = "seasonLoaded"

\* The positions of allGames that hold the first row of their file_id.
FirstRows ==
    { j \in DOMAIN allGames :
        \A i \in 1..(j - 1) : allGames[i].file_id # allGames[j].file_id }

\* The first rows in which Maryland plays.
SubjectFirstRows ==
    { j \in FirstRows :
        \/ allGames[j].home_team = "Maryland"
        \/ allGames[j].visiting_team = "Maryland" }

\* C30: after setupGameTimeline, sortedGames holds every file_id at most
\* once, holds exactly the first rows of the file_ids of allGames in which
\* home_team or visiting_team is 'Maryland', and is in non-decreasing date
\* order; when it is not empty the timeline stands on its last game and
\* the aggregates and the team row cover all timeline games, and when it
\* is empty the aggregates cover all rows of allSeasonStats.
C30_TimelineSetUp ==
    TimelineSetUp =>
        /\ \A i, j \in DOMAIN sortedGames :
              sortedGames[i].file_id = sortedGames[j].file_id => i = j
        /\ { sortedGames[i] : i \in DOMAIN sortedGames }
             = { allGames[j] : j \in SubjectFirstRows }
        /\ Len(sortedGames) = Cardinality(SubjectFirstRows)
        /\ \A i, j \in DOMAIN sortedGames :
              i < j => sortedGames[i].date <= sortedGames[j].date
        /\ LET rows == IF sortedGames = <<>> THEN DOMAIN allSeasonStats
                       ELSE RowsThrough(Len(sortedGames) - 1)
           IN  /\ sortedGames # <<>> =>
                     /\ selectedGameIndex = Len(sortedGames) - 1
                     /\ seasonTeamTotals[1].games = Len(sortedGames)
               /\ { playerKey(seasonPlayerStats[i]) :
                      i \in DOMAIN seasonPlayerStats }
                    = { playerKey(allSeasonStats[j]) : j \in rows }
               /\ \A i \in DOMAIN seasonPlayerStats :
                     seasonPlayerStats[i].games =
                       Cardinality({ j \in rows :
                                       playerKey(allSeasonStats[j])
                                         = playerKey(seasonPlayerStats[i]) })

\* Two Maryland games listed latest first: the timeline holds them
\* earliest first and stands on the second, with the rows of both
\* aggregated.
C30_Witness ==
    /\ TimelineSetUp
    /\ Len(allGames) = 2
    /\ allGames[1].date > allGames[2].date
    /\ sortedGames = <<allGames[2], allGames[1]>>
    /\ selectedGameIndex = 1
    /\ Len(allSeasonStats) = 2
    /\ allSeasonStats[1].file_id # allSeasonStats[2].file_id
    /\ Len(seasonPlayerStats) = 1
    /\ seasonPlayerStats[1].games = 2

====
